---- MODULE Spec2Model ----
(***************************************************************************)
(* Sprite font generator (webview tool), shelf packer, atlas composer,     *)
(* descriptor export and the text layout engine of mode777/tile-engine.    *)
(*                                                                         *)
(* Pixel quantities are integers.  Font-unit quantities are scaled by the  *)
(* exact rational fontSize / unitsPerEm; Math.ceil and Math.floor are      *)
(* computed exactly on that rational (CeilDiv, FloorDiv).                  *)
(***************************************************************************)
EXTENDS Integers, Sequences, FiniteSets, TLC

VARIABLES
    glyphs,      \* packGlyphs: the argument list of GlyphBitmap
    packed,      \* packGlyphs: outcome of the call, or NotRun
    text,        \* layoutText: the text argument, a sequence of code points
    maxWidth,    \* layoutText: the maxWidth argument
    asset,       \* layoutText: the asset argument
    laidOut,     \* layoutText: the returned TextLine list, or NotRun
    sig,         \* SpriteFontToolComponent: the values of its signals
    task,        \* the pickFont or exportSpriteFont call in flight: its
                 \* position and its local variables
    requestIdCounter,  \* MessageService.requestIdCounter
    pendingRequests,   \* MessageService.pendingRequests: the ids tracked
    hostInbox,   \* messages posted by the webview, not yet handled by the host
    webInbox,    \* responses posted by the host, not yet routed by the webview
    files,       \* the two artifacts on disk
    preview,     \* SpriteFontPreviewComponent: descriptor, atlas image and the
                 \* source rectangles drawTextPreview read from it
    budget,      \* user actions taken: edits, font picks, export runs
    provider,    \* StandaloneToolProvider: openPanels and handlersMap
    workbench,   \* the panels VS Code shows, and the calls made so far:
                 \* openTool, createWebviewPanel, reveal, onOpen, onClose
    settled      \* MessageService: the promises of trackRequest settled so
                 \* far, each with its request id and outcome

packVars == <<glyphs, packed>>

layoutVars == <<text, maxWidth, asset, laidOut>>

toolVars == <<sig, task, requestIdCounter, pendingRequests, hostInbox, webInbox,
              files, preview, budget>>

panelVars == <<provider, workbench>>

vars == <<glyphs, packed, text, maxWidth, asset, laidOut, sig, task,
          requestIdCounter, pendingRequests, hostInbox, webInbox, files,
          preview, budget, provider, workbench, settled>>

----------------------------------------------------------------------------
(* Bounds of the model *)

MaxGlyphs == 3

MaxTextLen == 4

MaxEdits == 2

MaxPicks == 1

MaxRuns == 1

MaxOpenCalls == 4

MaxRequests == 3

(* Bitmap widths and heights the packer is exercised with: the minimum     *)
(* bitmap size, sizes of which two or three fill a shelf or a page, a      *)
(* width that just fails to fit beside the 156 and one size beyond the     *)
(* page.                                                                   *)
PackWidths == {1, 100, 101, 156, 257}
PackHeights == {1, 100, 156, 257}

----------------------------------------------------------------------------
(* Program constants *)

PAGE_SIZE == 256

NotRun == [state |-> "notrun"]

----------------------------------------------------------------------------
(* Generic helpers *)

Max(a, b) == IF a >= b THEN a ELSE b

Min(a, b) == IF a <= b THEN a ELSE b

Abs(a) == IF a < 0 THEN -a ELSE a

Range(s) == {s[i] : i \in DOMAIN s}

----------------------------------------------------------------------------
(* packGlyphs *)

(* [...glyphs].sort((a, b) => b.metrics.height - a.metrics.height):        *)
(* Array.prototype.sort is stable, so equal heights keep their order.      *)
RECURSIVE InsertByHeight(_, _)
InsertByHeight(sorted, g) ==
    IF sorted = <<>> THEN <<g>>
    ELSE IF Head(sorted).metrics.height >= g.metrics.height
         THEN <<Head(sorted)>> \o InsertByHeight(Tail(sorted), g)
         ELSE <<g>> \o sorted

RECURSIVE SortByHeightDesc(_)
SortByHeightDesc(gs) ==
    IF gs = <<>> THEN <<>>
    ELSE InsertByHeight(SortByHeightDesc(SubSeq(gs, 1, Len(gs) - 1)), gs[Len(gs)])

(* The condition of the shelf scan, lines 466-469. *)
ShelfFits(shelf, g) ==
    /\ g.metrics.width <= PAGE_SIZE - shelf.x
    /\ g.metrics.height <= shelf.height

(* Index of the first shelf of the page that takes the glyph, 0 if none. *)
FirstFittingShelf(page, g) ==
    LET fits == {i \in DOMAIN page.shelves : ShelfFits(page.shelves[i], g)}
    IN  IF fits = {} THEN 0 ELSE CHOOSE i \in fits : \A j \in fits : i <= j

(* shelf.x += glyph.metrics.width without advancing: a packer that forgets *)
(* what it has placed.                                                     *)
AdvanceShelfStuck(shelf, g) == shelf

(* shelf.x += glyph.metrics.width *)
AdvanceShelf(shelf, g) == [shelf EXCEPT !.x = @ + g.metrics.width]

(* { ...glyph, page, x, y } *)
Placement(g, pageIndex, x, y) == [page |-> pageIndex, x |-> x, y |-> y] @@ g

(* Whether a page takes a new shelf for the glyph, line 478. *)
PageTakesShelf(page, g) == page.usedHeight + g.metrics.height <= PAGE_SIZE

(* A new shelf placed at the page's used height, lines 479-483. *)
NewShelf(page, g) ==
    [y |-> page.usedHeight, height |-> g.metrics.height, x |-> g.metrics.width]

(* The body of "for (const page of pages)" from page p on, lines 464-490.  *)
(* Returns the pages and placements after the scan and whether the glyph   *)
(* was placed.                                                             *)
RECURSIVE ScanPages(_, _, _, _)
ScanPages(pages, placements, g, p) ==
    IF p > Len(pages)
    THEN [placed |-> FALSE, pages |-> pages, placements |-> placements]
    ELSE LET page == pages[p]
             s == FirstFittingShelf(page, g)
         IN  IF s # 0
             THEN [placed |-> TRUE,
                   pages |-> [pages EXCEPT ![p].shelves[s] = AdvanceShelf(@, g)],
                   placements |-> Append(placements,
                       Placement(g, page.index, page.shelves[s].x, page.shelves[s].y))]
             ELSE IF PageTakesShelf(page, g)
             THEN [placed |-> TRUE,
                   pages |-> [pages EXCEPT
                       ![p].shelves = Append(@, NewShelf(page, g)),
                       ![p].usedHeight = @ + g.metrics.height],
                   placements |-> Append(placements,
                       Placement(g, page.index, 0, page.usedHeight))]
             ELSE ScanPages(pages, placements, g, p + 1)

(* The guard of the throw, line 496. *)
TooLarge(g) == g.metrics.width > PAGE_SIZE \/ g.metrics.height > PAGE_SIZE

(* The loop "for (const glyph of sorted)" from index i on, lines 462-510,  *)
(* and the return of line 513.                                             *)
RECURSIVE PackLoop(_, _, _, _)
PackLoop(sorted, i, pages, placements) ==
    IF i > Len(sorted)
    THEN [state |-> "returned", placements |-> placements, pageCount |-> Len(pages)]
    ELSE LET g == sorted[i]
             scan == ScanPages(pages, placements, g, 1)
         IN  IF scan.placed
             THEN PackLoop(sorted, i + 1, scan.pages, scan.placements)
             ELSE IF TooLarge(g)
             THEN [state |-> "threw", codepoint |-> g.codepoint]
             ELSE PackLoop(sorted, i + 1,
                     Append(pages,
                         [index |-> Len(pages),
                          shelves |-> <<[y |-> 0, height |-> g.metrics.height,
                                         x |-> g.metrics.width]>>,
                          usedHeight |-> g.metrics.height]),
                     Append(placements, Placement(g, Len(pages), 0, 0)))

(* A first page kept from the call before, with rows still counted as     *)
(* used: one for each glyph that call placed.                              *)
FirstPageLeftOver ==
    [index |-> 0, shelves |-> << >>,
     usedHeight |-> IF packed.state = "returned" THEN Len(packed.placements) ELSE 0]

(* const pages = [{ index: 0, shelves: [], usedHeight: 0 }], line 459. *)
FirstPage == [index |-> 0, shelves |-> << >>, usedHeight |-> 0]

(* packGlyphs without the sort of line 458: bitmaps taken in request order. *)
packGlyphsUnsorted(gs) == PackLoop(gs, 1, << FirstPage >>, << >>)

packGlyphs(gs) == PackLoop(SortByHeightDesc(gs), 1, << FirstPage >>, << >>)

----------------------------------------------------------------------------
(* Text layout engine: layoutText and its helpers *)

(* A text is the sequence of its code points, the unit of "for (const ch   *)
(* of text)".                                                              *)
LF == 10
CR == 13
SPACE == 32
(* The space taken for the fallback character. *)
FallbackIsSpace == SPACE
QUESTION == 63

(* /\s/.test(ch) on the characters the model uses. *)
IsSpace(cp) == cp \in {9, 10, 11, 12, 13, 32, 160}

(* Number.prototype.toString(): the decimal digits of a non-negative       *)
(* integer, most significant first.                                        *)
RECURSIVE ToDecimal(_)
ToDecimal(n) ==
    IF n < 10 THEN <<n>> ELSE Append(ToDecimal(n \div 10), n % 10)

(* ch.charCodeAt(0): the first UTF-16 code unit of the character, which is *)
(* the high surrogate for a code point above U+FFFF.                       *)
CharCodeAt0(cp) ==
    IF cp <= 65535 THEN cp ELSE 55296 + ((cp - 65536) \div 1024)

(* text.split(/\r?\n/): a line feed ends a paragraph and takes one         *)
(* directly preceding carriage return with it.                             *)
RECURSIVE SplitLoop(_, _, _, _)
SplitLoop(t, i, buffer, paras) ==
    IF i > Len(t) THEN Append(paras, buffer)
    ELSE IF t[i] = LF
         THEN SplitLoop(t, i + 1, << >>,
                  Append(paras,
                      IF buffer # << >> /\ buffer[Len(buffer)] = CR
                      THEN SubSeq(buffer, 1, Len(buffer) - 1)
                      ELSE buffer))
         ELSE SplitLoop(t, i + 1, Append(buffer, t[i]), paras)

SplitParagraphs(t) == SplitLoop(t, 1, << >>, << >>)

(* breakIntoSegments, lines 152-171. *)
RECURSIVE SegmentLoop(_, _, _, _, _)
SegmentLoop(para, i, buffer, wasSpace, segments) ==
    IF i > Len(para)
    THEN IF buffer # << >> THEN Append(segments, buffer) ELSE segments
    ELSE LET isSpace == IsSpace(para[i])
         IN  IF buffer # << >> /\ isSpace # wasSpace
             THEN SegmentLoop(para, i + 1, <<para[i]>>, isSpace,
                              Append(segments, buffer))
             ELSE SegmentLoop(para, i + 1, Append(buffer, para[i]), isSpace,
                              segments)

breakIntoSegments(para) == SegmentLoop(para, 1, << >>, FALSE, << >>)

(* null of "prevCP: number | null". *)
NoCP == -1

HasGlyph(a, key) == key \in DOMAIN a.glyphs

(* const kern = (cp !== null && glyph.kerning?.[cp]) ? glyph.kerning[cp]   *)
(* : 0, line 250: the entry of the CURRENT glyph under the previous code.  *)
Kern(glyph, cp) ==
    IF cp # NoCP /\ cp \in DOMAIN glyph.kerning /\ glyph.kerning[cp] # 0
    THEN glyph.kerning[cp] ELSE 0

(* The loop of measureSegment, lines 238-260.  A placed glyph carries,     *)
(* next to the fields of PlacedGlyph, src: the position and code point of  *)
(* the character it was produced for.                                      *)
RECURSIVE MeasureLoop(_, _, _, _, _, _, _, _)
MeasureLoop(segment, i, startX, a, x, cp, placed, origin) ==
    IF i > Len(segment)
    THEN [glyphs |-> placed, width |-> x, finalCP |-> cp]
    ELSE LET charCode == CharCodeAt0(segment[i])
             key == ToDecimal(charCode)
         IN  IF ~HasGlyph(a, key) /\ ~HasGlyph(a, ToDecimal(QUESTION))
             THEN MeasureLoop(segment, i + 1, startX, a, x, cp, placed, origin)
             ELSE LET glyph == IF HasGlyph(a, key) THEN a.glyphs[key]
                               ELSE a.glyphs[ToDecimal(QUESTION)]
                      kern == Kern(glyph, cp)
                  IN  MeasureLoop(segment, i + 1, startX, a,
                          x + glyph.xAdvance + kern, charCode,
                          Append(placed,
                              [metrics |-> glyph, x |-> startX + x + kern, y |-> 0,
                               src |-> [para |-> origin.para, seg |-> origin.seg,
                                        idx |-> i, cp |-> segment[i]]]),
                          origin)

measureSegment(segment, startX, a, prevCP, origin) ==
    MeasureLoop(segment, 1, startX, a, 0, prevCP, << >>, origin)

(* The wrap test with the segment width left out. *)
NeedsWrapLate(wrap, xPosition, segW, maxW, currentGlyphs) ==
    wrap /\ xPosition > maxW /\ Len(currentGlyphs) > 0

(* if (wrap && xPosition + segW > maxW && currentGlyphs.length > 0),       *)
(* line 204.                                                               *)
NeedsWrap(wrap, xPosition, segW, maxW, currentGlyphs) ==
    wrap /\ xPosition + segW > maxW /\ Len(currentGlyphs) > 0

TextLine(currentGlyphs, lineWidth, rowH, baselineOff) ==
    [glyphs |-> currentGlyphs, width |-> lineWidth, height |-> rowH,
     baseline |-> baselineOff]

(* commitLine that pushes the line and keeps the glyphs it pushed. *)
commitLineKeepsGlyphs(st, rowH, baselineOff) ==
    [st EXCEPT
        !.lines = Append(@, TextLine(st.currentGlyphs, st.lineWidth, rowH,
                                     baselineOff)),
        !.xPosition = 0,
        !.lineWidth = 0,
        !.lastCP = NoCP]

(* commitLine, lines 187-198, on the locals held by st. *)
commitLine(st, rowH, baselineOff) ==
    [st EXCEPT
        !.lines = Append(@, TextLine(st.currentGlyphs, st.lineWidth, rowH,
                                     baselineOff)),
        !.currentGlyphs = << >>,
        !.xPosition = 0,
        !.lineWidth = 0,
        !.lastCP = NoCP]

(* The loop of buildLinesFromSegments, lines 200-225; st holds the locals  *)
(* lines, currentGlyphs, xPosition, lineWidth, lastCP.                     *)
RECURSIVE BuildLoop(_, _, _, _, _, _, _, _)
BuildLoop(segments, i, wrap, maxW, a, rowH, baselineOff, st) ==
    IF i > Len(segments)
    THEN IF Len(st.currentGlyphs) > 0
         THEN commitLine(st, rowH, baselineOff).lines
         ELSE st.lines
    ELSE LET origin == [para |-> st.para, seg |-> i]
             m == measureSegment(segments[i], st.xPosition, a, st.lastCP, origin)
         IN  IF NeedsWrap(wrap, st.xPosition, m.width, maxW, st.currentGlyphs)
             THEN LET committed == commitLine(st, rowH, baselineOff)
                      re == measureSegment(segments[i], 0, a, NoCP, origin)
                  IN  BuildLoop(segments, i + 1, wrap, maxW, a, rowH, baselineOff,
                          [committed EXCEPT
                              !.currentGlyphs = @ \o re.glyphs,
                              !.xPosition = re.width,
                              !.lineWidth = re.width,
                              !.lastCP = re.finalCP])
             ELSE BuildLoop(segments, i + 1, wrap, maxW, a, rowH, baselineOff,
                      [st EXCEPT
                          !.currentGlyphs = @ \o m.glyphs,
                          !.xPosition = @ + m.width,
                          !.lineWidth = st.xPosition + m.width,
                          !.lastCP = m.finalCP])

(* Locals that start a paragraph as if a space had come before it. *)
InitialLocalsAfterSpace(para) ==
    [lines |-> << >>, currentGlyphs |-> << >>, xPosition |-> 0,
     lineWidth |-> 0, lastCP |-> SPACE, para |-> para]

(* The locals of buildLinesFromSegments as declared, lines 181-185; para   *)
(* is the number of the paragraph, kept for src.                           *)
InitialLocals(para) ==
    [lines |-> << >>, currentGlyphs |-> << >>, xPosition |-> 0,
     lineWidth |-> 0, lastCP |-> NoCP, para |-> para]

buildLinesFromSegments(segments, wrap, maxW, a, rowH, baselineOff, para) ==
    BuildLoop(segments, 1, wrap, maxW, a, rowH, baselineOff, InitialLocals(para))

(* The paragraph loop of layoutText, lines 134-147. *)
RECURSIVE ParagraphLoop(_, _, _, _, _)
ParagraphLoop(paragraphs, p, maxW, a, result) ==
    IF p > Len(paragraphs) THEN result
    ELSE IF paragraphs[p] = << >>
         THEN ParagraphLoop(paragraphs, p + 1, maxW, a,
                  Append(result,
                      TextLine(<< >>, 0, a.info.lineHeight, a.info.baseline)))
         ELSE ParagraphLoop(paragraphs, p + 1, maxW, a,
                  result \o buildLinesFromSegments(breakIntoSegments(paragraphs[p]),
                                maxW > 0, maxW, a, a.info.lineHeight,
                                a.info.baseline, p))

layoutText(t, maxW, a) == ParagraphLoop(SplitParagraphs(t), 1, maxW, a, << >>)

----------------------------------------------------------------------------
(* Fonts (opentype.js Font objects) *)

(* Math.ceil and Math.floor of the rational n / d, d > 0. *)
CeilDiv(n, d) == -((-n) \div d)

FloorDiv(n, d) == n \div d

(* A font-unit value times scale = fontSize / unitsPerEm, kept exact. *)
Scaled(v, size, f) == [num |-> v * size, den |-> f.unitsPerEm]

(* The same for advances and kerning values, which the model fonts keep    *)
(* multiples of unitsPerEm / fontSize, so that the pixel value is whole.   *)
ScaledPx(v, size, f) == (v * size) \div f.unitsPerEm

Undefined == -2

(* Glyph objects: index, unicode (the first code point mapped to the      *)
(* glyph, undefined for .notdef), advanceWidth and bounding box in font   *)
(* units.                                                                  *)
Glyph(index, unicode, adv, x1, y1, x2, y2) ==
    [index |-> index, unicode |-> unicode, advanceWidth |-> adv,
     x1 |-> x1, y1 |-> y1, x2 |-> x2, y2 |-> y2]

NotdefGlyph == Glyph(0, Undefined, 32, 4, 0, 28, 45)

QuestionGlyph == Glyph(1, 63, 32, 3, -1, 27, 47)

SpaceGlyph == Glyph(2, 32, 16, 0, 0, 0, 0)

ZeroGlyph == Glyph(3, 48, 32, 2, 0, 30, 45)

UpperAGlyph == Glyph(4, 65, 40, 1, 0, 39, 47)

LowerAGlyph == Glyph(5, 97, 32, 3, -1, 28, 33)

(* A font with the usual Latin coverage: NBSP shares the space glyph, the  *)
(* tab and the tilde are not mapped.                                       *)
FontLatin ==
    [name |-> "Latin", unitsPerEm |-> 64, ascender |-> 56, descender |-> -16,
     cmap |-> (63 :> QuestionGlyph) @@ (32 :> SpaceGlyph) @@ (160 :> SpaceGlyph)
           @@ (48 :> ZeroGlyph) @@ (65 :> UpperAGlyph) @@ (97 :> LowerAGlyph),
     kern |-> (<<4, 5>> :> -4) @@ (<<5, 1>> :> 2) @@ (<<1, 4>> :> -2)]

(* A font without a glyph for "?". *)
FontNoQuestion ==
    [name |-> "NoQuestion", unitsPerEm |-> 64, ascender |-> 56, descender |-> -16,
     cmap |-> (32 :> SpaceGlyph) @@ (48 :> ZeroGlyph) @@ (65 :> UpperAGlyph)
           @@ (97 :> LowerAGlyph),
     kern |-> (<<4, 5>> :> -4)]

Fonts == {FontLatin, FontNoQuestion}

NoFont == [name |-> "null"]

(* Largest code point String.fromCodePoint accepts. *)
MaxCodePoint == 1114111

(* f.charToGlyph(String.fromCodePoint(cp)): the mapped glyph, or .notdef. *)
charToGlyph(f, cp) == IF cp \in DOMAIN f.cmap THEN f.cmap[cp] ELSE NotdefGlyph

(* f.getKerningValue(left, right), in font units. *)
getKerningValue(f, left, right) ==
    IF <<left.index, right.index>> \in DOMAIN f.kern
    THEN f.kern[<<left.index, right.index>>] ELSE 0

----------------------------------------------------------------------------
(* Codepoint selection *)

(* range(start, end) of the preset tables, represented in the model by its *)
(* two end points.                                                         *)
range(start, end) == {start, end}

REQUIRED_PRESETS == {"digits", "upper", "lower", "whitespace"}

OPTIONAL_PRESETS == {"ascii", "latin1", "punctuation"}

presetCodes(preset) ==
    CASE preset = "digits" -> range(48, 57)
      [] preset = "upper" -> range(65, 90)
      [] preset = "lower" -> range(97, 122)
      [] preset = "whitespace" -> {32, 9, 160}
      [] preset = "ascii" -> range(32, 126)
      [] preset = "latin1" -> range(160, 255)
      [] preset = "punctuation" ->
            range(33, 47) \cup range(58, 64) \cup range(91, 96) \cup range(123, 126)

defaultOptionalPresets == {"ascii"}

(* Array.from(new Set(values)).sort((a, b) => a - b): the ascending list   *)
(* of the distinct values.                                                 *)
RECURSIVE uniqueSorted(_)
uniqueSorted(values) ==
    IF values = {} THEN << >>
    ELSE LET least == CHOOSE v \in values : \A w \in values : v <= w
         IN  <<least>> \o uniqueSorted(values \ {least})

(* The custom range field holds a list of parts "start" or "start-end";    *)
(* a part is given by what parseInt made of its numbers (NaN where it      *)
(* failed; end is NoEnd for a part without "-").                           *)
NaN == -3

NoEnd == -4

Part(start, end) == [start |-> start, end |-> end]

(* parseCustomRanges, lines 220-243, from the parts on. *)
parseCustomRanges(parts) ==
    UNION {IF parts[i].end = NoEnd
           THEN (IF parts[i].start # NaN THEN {parts[i].start} ELSE {})
           ELSE (IF parts[i].start # NaN /\ parts[i].end # NaN
                 THEN range(Min(parts[i].start, parts[i].end),
                            Max(parts[i].start, parts[i].end))
                 ELSE {})
           : i \in DOMAIN parts}

(* The codepoints memo, lines 280-289. *)
codepointsOf(optional, custom) ==
    uniqueSorted(UNION {presetCodes(preset) : preset \in REQUIRED_PRESETS \cup optional}
                 \cup parseCustomRanges(custom) \cup {63})

----------------------------------------------------------------------------
(* Glyph rasterizer *)

(* The lineHeight memo, lines 291-296. *)
lineHeightOf(f, size, pad) ==
    IF f = NoFont THEN 0
    ELSE CeilDiv((f.ascender - f.descender) * size + pad * 2 * f.unitsPerEm,
                 f.unitsPerEm)

(* The baselinePx memo, lines 298-303. *)
baselinePxOf(f, size, pad) ==
    IF f = NoFont THEN 0
    ELSE CeilDiv(f.ascender * size + pad * f.unitsPerEm, f.unitsPerEm)

(* The kerning table of lines 429-438: the entries of renderGlyph as LEFT  *)
(* glyph against every requested code point as right glyph.                *)
kerningOf(f, renderGlyph, cfg) ==
    IF cfg.includeKerning
    THEN LET cps == {c \in Range(cfg.codepoints) :
                        getKerningValue(f, renderGlyph, charToGlyph(f, c)) # 0}
         IN  [c \in cps |->
                 ScaledPx(getKerningValue(f, renderGlyph, charToGlyph(f, c)),
                          cfg.fontSize, f)]
    ELSE [c \in {} |-> 0]

(* measureGlyph, lines 360-455.  cfg holds the signals the function reads: *)
(* fontSize, padding, fontStyle, fontWeight, fontFamily, antialias,        *)
(* includeKerning, codepoints.  The canvas is given by its size, the       *)
(* character drawn (NoCP when nothing is drawn), the ctx.font it was drawn *)
(* with, the draw position and whether the 1-bit threshold was applied.    *)
measureGlyph(glyph, fallbackGlyph, f, cfg) ==
    LET size == cfg.fontSize
        upm == f.unitsPerEm
        paddingPx == cfg.padding
        isTab == glyph.unicode = 9
        isSpace == glyph.unicode = 32 \/ glyph.unicode = 160
        renderGlyph == IF isTab THEN fallbackGlyph ELSE glyph
        spaceGlyph == charToGlyph(f, 32)
        spaceAdvanceWidth == spaceGlyph.advanceWidth * size
        width == Max(1, CeilDiv(
                     (IF isSpace \/ isTab THEN spaceAdvanceWidth
                      ELSE (renderGlyph.x2 - renderGlyph.x1) * size)
                     + paddingPx * 2 * upm, upm))
        ascent == f.ascender * size
        descent == Abs(f.descender * size)
        height == Max(1, CeilDiv(
                     (IF isSpace \/ isTab THEN ascent + descent
                      ELSE (renderGlyph.y2 - renderGlyph.y1) * size)
                     + paddingPx * 2 * upm, upm))
        unicode == IF glyph.unicode = Undefined THEN 63 ELSE glyph.unicode
        xAdvance == IF isTab THEN ScaledPx(spaceGlyph.advanceWidth * 4, size, f)
                    ELSE ScaledPx(renderGlyph.advanceWidth, size, f)
    IN  [codepoint |-> unicode,
         canvas |-> [width |-> width, height |-> height,
                     drawn |-> IF isSpace \/ isTab THEN NoCP
                               ELSE IF renderGlyph.unicode = Undefined THEN 63
                               ELSE renderGlyph.unicode,
                     font |-> [style |-> cfg.fontStyle, weight |-> cfg.fontWeight,
                               size |-> size, family |-> cfg.fontFamily],
                     xDraw |-> [num |-> -renderGlyph.x1 * size + paddingPx * upm,
                                den |-> upm],
                     yDraw |-> [num |-> renderGlyph.y2 * size + paddingPx * upm,
                                den |-> upm],
                     thresholded |-> ~cfg.antialias],
         metrics |-> [codepoint |-> unicode,
                      xAdvance |-> xAdvance,
                      xOffset |-> FloorDiv(renderGlyph.x1 * size, upm) - paddingPx,
                      yOffset |-> FloorDiv(-renderGlyph.y2 * size, upm) - paddingPx,
                      baseline |-> CeilDiv(ascent + paddingPx * upm, upm),
                      bounds |-> [xMin |-> Scaled(renderGlyph.x1, size, f),
                                  xMax |-> Scaled(renderGlyph.x2, size, f),
                                  yMin |-> Scaled(renderGlyph.y1, size, f),
                                  yMax |-> Scaled(renderGlyph.y2, size, f)],
                      kerning |-> kerningOf(f, renderGlyph, cfg),
                      width |-> width,
                      height |-> height]]

(* The glyph the font returned, measured as it is. *)
sourceGlyphAsReturned(glyph, fallbackGlyph) == glyph

(* const sourceGlyph = glyph && glyph.unicode !== undefined ? glyph :      *)
(* fallbackGlyph, line 644.                                                *)
sourceGlyph(glyph, fallbackGlyph) ==
    IF glyph.unicode # Undefined THEN glyph ELSE fallbackGlyph

(* The loop body without the assignments of lines 646-647: the bitmap     *)
(* keeps the code point of the glyph it was measured from.                 *)
rasterizeUnrenamed(f, cp, fallbackGlyph, cfg) ==
    LET glyph == charToGlyph(f, cp)
    IN  measureGlyph(sourceGlyph(glyph, fallbackGlyph), fallbackGlyph, f, cfg)

(* The body of the loop of lines 642-648 for one code point. *)
rasterize(f, cp, fallbackGlyph, cfg) ==
    LET glyph == charToGlyph(f, cp)
        measured == measureGlyph(sourceGlyph(glyph, fallbackGlyph), fallbackGlyph, f, cfg)
    IN  [codepoint |-> cp, canvas |-> measured.canvas,
         metrics |-> [measured.metrics EXCEPT !.codepoint = cp]]

(* glyphBitmaps of lines 641-648. *)
glyphBitmapsOf(f, fallbackGlyph, cfg) ==
    [i \in DOMAIN cfg.codepoints |-> rasterize(f, cfg.codepoints[i], fallbackGlyph, cfg)]

----------------------------------------------------------------------------
(* Atlas composer *)

(* placements.reduce((max, g) => Math.max(max, g.page), 0), line 520. *)
RECURSIVE maxPageOf(_)
maxPageOf(placements) ==
    IF placements = << >> THEN 0
    ELSE Max(maxPageOf(Tail(placements)), Head(placements).page)

(* The number of page canvases made by the loop of lines 522-531, less one. *)
atlasPagesShort(placements) == maxPageOf(placements)

(* The number of page canvases made by the loop of lines 522-531. *)
atlasPages(placements) == maxPageOf(placements) + 1

(* Every page drawn at the top of the stacked image. *)
stackedRowOverlaid(idx) == 0

(* The row of the stacked image where page idx is drawn, line 546. *)
stackedRow(idx) == idx * PAGE_SIZE

(* buildAtlas, lines 516-550.  The stacked canvas is given by its size and *)
(* by the glyph canvases it shows with the position of each: a glyph is    *)
(* drawn on the canvas of its page at (x, y), line 535, and that canvas at *)
(* (0, idx * PAGE_SIZE), line 546.  w and h are the part of the glyph      *)
(* canvas that falls on the PAGE_SIZE x PAGE_SIZE page canvas: drawImage   *)
(* clips at the edge of its target.                                        *)
buildAtlas(placements, aa) ==
    LET count == atlasPages(placements)
    IN  [stacked |->
            [width |-> PAGE_SIZE,
             height |-> PAGE_SIZE * count,
             smoothing |-> aa,
             sprites |-> [i \in DOMAIN placements |->
                            [codepoint |-> placements[i].codepoint,
                             canvas |-> placements[i].canvas,
                             x |-> placements[i].x,
                             y |-> stackedRow(placements[i].page) + placements[i].y,
                             w |-> Max(0, Min(placements[i].canvas.width,
                                              PAGE_SIZE - placements[i].x)),
                             h |-> Max(0, Min(placements[i].canvas.height,
                                              PAGE_SIZE - placements[i].y))]]],
         pageCount |-> count]

----------------------------------------------------------------------------
(* Metadata builder *)

(* glyphRecord of lines 676-684: one entry per placement under the decimal *)
(* string of its code point; a later placement replaces an earlier entry.  *)
glyphRecordOf(placements) ==
    LET keys == {ToDecimal(placements[i].codepoint) : i \in DOMAIN placements}
        last(key) == CHOOSE i \in DOMAIN placements :
                        /\ ToDecimal(placements[i].codepoint) = key
                        /\ \A j \in DOMAIN placements :
                              ToDecimal(placements[j].codepoint) = key => j <= i
    IN  [key \in keys |->
            [codepoint |-> placements[last(key)].metrics.codepoint,
             xAdvance |-> placements[last(key)].metrics.xAdvance,
             xOffset |-> placements[last(key)].metrics.xOffset,
             yOffset |-> placements[last(key)].metrics.yOffset,
             baseline |-> placements[last(key)].metrics.baseline,
             bounds |-> placements[last(key)].metrics.bounds,
             kerning |-> placements[last(key)].metrics.kerning,
             width |-> placements[last(key)].metrics.width,
             height |-> placements[last(key)].metrics.height,
             page |-> placements[last(key)].page,
             x |-> placements[last(key)].x,
             y |-> placements[last(key)].y]]

(* metadata of lines 686-702; sg holds  the signals as read at that point. *)
metadataOf(placements, atlas, sg) ==
    [type |-> "spritefont",
     info |-> [face |-> sg.fontName,
               size |-> sg.fontSize,
               style |-> sg.fontStyle,
               weight |-> sg.fontWeight,
               pages |-> atlas.pageCount,
               lineHeight |-> lineHeightOf(sg.font, sg.fontSize, sg.padding),
               baseline |-> baselinePxOf(sg.font, sg.fontSize, sg.padding),
               padding |-> sg.padding,
               antialias |-> sg.antialias],
     glyphs |-> glyphRecordOf(placements),
     pages |-> [width |-> PAGE_SIZE, height |-> PAGE_SIZE * atlas.pageCount]]

----------------------------------------------------------------------------
(* The parts of the state a specification leaves alone *)

PackIdle ==
    /\ glyphs = << >>
    /\ packed = NotRun

LayoutIdle ==
    /\ text = << >>
    /\ maxWidth = 0
    /\ asset = NotRun
    /\ laidOut = NotRun

(* No promise of trackRequest has been settled. *)
NoneSettled == settled = << >>

otherVars == <<glyphs, packed, text, maxWidth, asset, laidOut, provider, workbench,
               settled>>

----------------------------------------------------------------------------
(* The sprite font tool: component signals, message service, host *)

(* The signals after construction, lines 261-276. *)
InitialSignals ==
    [font |-> NoFont, fontFamily |-> "null", fontName |-> "null", fontPath |-> "null",
     fontSize |-> 32, fontStyle |-> "normal", fontWeight |-> "normal",
     optionalPresets |-> defaultOptionalPresets, customRanges |-> << >>,
     padding |-> 1, antialias |-> TRUE, includeKerning |-> TRUE,
     status |-> "Select a font to begin.", busy |-> FALSE,
     glyphCount |-> 0, pageCount |-> 0]

Idle == [pc |-> "idle"]

NoFile == [run |-> 0]

(* The signals measureGlyph reads, with the codepoints memo evaluated. *)
rasterConfig(sg) ==
    [fontSize |-> sg.fontSize, padding |-> sg.padding, fontStyle |-> sg.fontStyle,
     fontWeight |-> sg.fontWeight, fontFamily |-> sg.fontFamily,
     antialias |-> sg.antialias, includeKerning |-> sg.includeKerning,
     codepoints |-> codepointsOf(sg.optionalPresets, sg.customRanges)]

(* Values typed into the inputs of lines 735-818.  0 stands for any entry  *)
(* parseInt turns into 0 or NaN.                                           *)
FontSizeInputs == {0, 128, 512}

PaddingInputs == {0, 1, 2}

CustomRangeInputs == {<< >>, <<Part(66, 65)>>, <<Part(NaN, NoEnd), Part(1114112, NoEnd)>>}

(* Font files the user can pick, and what opentype.parse makes of each. *)
FontPaths == {"latin.ttf", "noquestion.ttf", "broken.ttf"}

parseFont(path) ==
    CASE path = "latin.ttf" -> FontLatin
      [] path = "noquestion.ttf" -> FontNoQuestion
      [] path = "broken.ttf" -> NoFont

ToolInit ==
    /\ sig = InitialSignals
    /\ task = Idle
    /\ requestIdCounter = 0
    /\ pendingRequests = {}
    /\ hostInbox = {}
    /\ webInbox = {}
    /\ files = [png |-> NoFile, asset |-> NoFile]
    /\ preview = NotRun
    /\ budget = [edits |-> 0, picks |-> 0, runs |-> 0]

(* trackRequest, lines 158-176, and the postMessage of the request: the    *)
(* counter gives the id, the id is tracked, the message goes to the host.  *)
SendRequest(message) ==
    /\ requestIdCounter' = requestIdCounter + 1
    /\ pendingRequests' = pendingRequests \cup {requestIdCounter}
    /\ hostInbox' = hostInbox \cup {[requestId |-> requestIdCounter] @@ message}

(* resolvePendingRequest, lines 129-135, for a tracked id, followed by the *)
(* request awaited next.                                                   *)
SettleAndSend(id, message) ==
    /\ requestIdCounter' = requestIdCounter + 1
    /\ pendingRequests' = (pendingRequests \ {id}) \cup {requestIdCounter}
    /\ hostInbox' = hostInbox \cup {[requestId |-> requestIdCounter] @@ message}

(* resolvePendingRequest without the delete of line 134. *)
SettleKeepsEntry(id) ==
    /\ pendingRequests' = pendingRequests
    /\ UNCHANGED <<requestIdCounter, hostInbox>>

(* resolvePendingRequest for a tracked id, no further request. *)
Settle(id) ==
    /\ pendingRequests' = pendingRequests \ {id}
    /\ UNCHANGED <<requestIdCounter, hostInbox>>

(* A response the call in flight is waiting for. *)
Awaited(resp) ==
    /\ resp \in webInbox
    /\ resp.requestId \in pendingRequests
    /\ task.pc # "idle"
    /\ task.req = resp.requestId

Edit ==
    /\ budget.edits < MaxEdits
    /\ budget' = [budget EXCEPT !.edits = @ + 1]
    /\ UNCHANGED <<task, requestIdCounter, pendingRequests, hostInbox, webInbox,
                   files, preview>>
    /\ UNCHANGED otherVars

(* onInput of the size field, line 742. *)
SetFontSize ==
    \E v \in FontSizeInputs :
        /\ Edit
        /\ sig' = [sig EXCEPT !.fontSize = IF v # 0 THEN v ELSE sig.fontSize]

(* onChange of the style select, line 748. *)
SetFontStyle ==
    \E v \in {"normal", "italic"} : Edit /\ sig' = [sig EXCEPT !.fontStyle = v]

(* onChange of the weight select, line 752. *)
SetFontWeight ==
    \E v \in {"normal", "bold"} : Edit /\ sig' = [sig EXCEPT !.fontWeight = v]

(* onInput of the padding field with v typed in, line 765:                 *)
(* setPadding(parseInt(value, 10) || padding()).                           *)
PaddingInput(v) ==
    /\ Edit
    /\ sig' = [sig EXCEPT !.padding = IF v # 0 THEN v ELSE sig.padding]

SetPadding == \E v \in PaddingInputs : PaddingInput(v)

(* onChange of the kerning checkbox, line 774. *)
SetIncludeKerning ==
    \E v \in BOOLEAN : Edit /\ sig' = [sig EXCEPT !.includeKerning = v]

(* onChange of the anti-aliasing checkbox, line 785. *)
SetAntialias ==
    \E v \in BOOLEAN : Edit /\ sig' = [sig EXCEPT !.antialias = v]

(* toggleOptionalPreset, lines 305-313. *)
ToggleOptionalPreset ==
    \E preset \in OPTIONAL_PRESETS :
        /\ Edit
        /\ sig' = [sig EXCEPT !.optionalPresets =
                      IF preset \in @ THEN @ \ {preset} ELSE @ \cup {preset}]

(* onInput of the custom ranges field, line 816. *)
SetCustomRanges ==
    \E v \in CustomRangeInputs : Edit /\ sig' = [sig EXCEPT !.customRanges = v]

----------------------------------------------------------------------------
(* Host side: CommonHandler and StandaloneToolHandler *)

HostHandles(msg, kind) ==
    /\ msg \in hostInbox
    /\ msg.kind = kind
    /\ hostInbox' = hostInbox \ {msg}
    /\ UNCHANGED <<sig, task, requestIdCounter, pendingRequests, preview, budget>>
    /\ UNCHANGED otherVars

Respond(resp) == webInbox' = webInbox \cup {resp}

(* postError, lines 287-299. *)
ErrorResponse(kind, requestId, error) ==
    [kind |-> kind, requestId |-> requestId, success |-> FALSE, error |-> error]

(* handlePickFile, lines 58-102, the user selecting a file. *)
HostPickFile ==
    \E msg \in hostInbox : \E path \in FontPaths :
        /\ HostHandles(msg, "pickFile")
        /\ Respond([kind |-> "filePicked", requestId |-> msg.requestId,
                    success |-> TRUE, paths |-> <<path>>])
        /\ UNCHANGED files

(* handlePickFile, the user closing the dialog, line 93. *)
HostPickCancelled ==
    \E msg \in hostInbox :
        /\ HostHandles(msg, "pickFile")
        /\ Respond(ErrorResponse("filePicked", msg.requestId, "File selection cancelled"))
        /\ UNCHANGED files

(* handleReadFile, lines 127-159. *)
HostReadFile ==
    \E msg \in hostInbox :
        /\ HostHandles(msg, "readFile")
        /\ Respond([kind |-> "fileContent", requestId |-> msg.requestId,
                    success |-> TRUE, content |-> msg.filePath])
        /\ UNCHANGED files

(* handleShowSaveDialog, lines 42-79: a path chosen, or null on cancel. *)
HostShowSaveDialog ==
    \E msg \in hostInbox : \E path \in {"sprite-font.png", "null"} :
        /\ HostHandles(msg, "showSaveDialog")
        /\ Respond([kind |-> "saveDialogResult", requestId |-> msg.requestId,
                    success |-> TRUE, path |-> path])
        /\ UNCHANGED files

(* handleWriteFile, lines 202-238, the write succeeding. *)
HostWriteFile ==
    \E msg \in hostInbox :
        /\ HostHandles(msg, "writeFile")
        /\ files' = [files EXCEPT ![msg.filePath] =
                        [run |-> msg.run, content |-> msg.content]]
        /\ Respond([kind |-> "fileWritten", requestId |-> msg.requestId,
                    success |-> TRUE])

ResponseKind(kind) ==
    CASE kind = "pickFile" -> "filePicked"
      [] kind = "readFile" -> "fileContent"
      [] kind = "writeFile" -> "fileWritten"
      [] kind = "showSaveDialog" -> "saveDialogResult"

(* The catch branch of any handler: the host operation threw. *)
HostFails ==
    \E msg \in hostInbox :
        /\ HostHandles(msg, msg.kind)
        /\ Respond(ErrorResponse(ResponseKind(msg.kind), msg.requestId, "host error"))
        /\ UNCHANGED files

----------------------------------------------------------------------------
(* pickFont, lines 315-358 *)

(* The catch and finally blocks of pickFont, lines 349-357. *)
pickFontCatch(sg, message) ==
    [sg EXCEPT !.status = message, !.font = NoFont, !.fontFamily = "null",
               !.busy = FALSE]

(* The catch block of exportSpriteFont without its finally: busy stays. *)
exportCatchStaysBusy(sg, message) == [sg EXCEPT !.status = message]

(* The catch and finally blocks of exportSpriteFont, lines 708-714. *)
exportCatch(sg, message) == [sg EXCEPT !.status = message, !.busy = FALSE]

IsPick(t) == t.pc \in {"pick:pickFile", "pick:readFile", "pick:load"}

IsExport(t) == t.pc \in {"export:saveDialog", "export:writePng", "export:writeAsset"}

(* Click on "Select Font" (enabled while not busy), up to the first await. *)
PickFontStart ==
    /\ ~sig.busy
    /\ task = Idle
    /\ budget.picks < MaxPicks
    /\ budget' = [budget EXCEPT !.picks = @ + 1]
    /\ sig' = [sig EXCEPT !.busy = TRUE, !.status = "Opening font picker"]
    /\ SendRequest([kind |-> "pickFile"])
    /\ task' = [pc |-> "pick:pickFile", req |-> requestIdCounter]
    /\ UNCHANGED <<webInbox, files, preview>>
    /\ UNCHANGED otherVars

(* The file picker resolved: lines 323-328. *)
PickFilePicked ==
    \E resp \in webInbox :
        /\ Awaited(resp)
        /\ task.pc = "pick:pickFile"
        /\ resp.success
        /\ webInbox' = webInbox \ {resp}
        /\ SettleAndSend(resp.requestId,
               [kind |-> "readFile", filePath |-> resp.paths[1]])
        /\ task' = [pc |-> "pick:readFile", req |-> requestIdCounter,
                    picked |-> resp.paths[1]]
        /\ UNCHANGED <<sig, files, preview, budget>>
        /\ UNCHANGED otherVars

(* The font bytes arrived and parse: lines 329-335, up to fontFace.load(). *)
PickFileRead ==
    \E resp \in webInbox :
        /\ Awaited(resp)
        /\ task.pc = "pick:readFile"
        /\ resp.success
        /\ parseFont(resp.content) # NoFont
        /\ webInbox' = webInbox \ {resp}
        /\ Settle(resp.requestId)
        /\ task' = [pc |-> "pick:load", req |-> -1, picked |-> task.picked,
                    parsed |-> parseFont(resp.content)]
        /\ UNCHANGED <<sig, files, preview, budget>>
        /\ UNCHANGED otherVars

(* opentype.parse throws on the bytes read: catch and finally. *)
PickParseFails ==
    \E resp \in webInbox :
        /\ Awaited(resp)
        /\ task.pc = "pick:readFile"
        /\ resp.success
        /\ parseFont(resp.content) = NoFont
        /\ webInbox' = webInbox \ {resp}
        /\ Settle(resp.requestId)
        /\ sig' = pickFontCatch(sig, "parse error")
        /\ task' = Idle
        /\ UNCHANGED <<files, preview, budget>>
        /\ UNCHANGED otherVars

(* fontFace.load() resolved: lines 336-348 and finally. *)
PickFontLoaded ==
    /\ task.pc = "pick:load"
    /\ sig' = [sig EXCEPT !.font = task.parsed, !.fontFamily = "SpriteFont-r",
                          !.fontName = task.parsed.name, !.fontPath = task.picked,
                          !.status = "Loaded font", !.busy = FALSE]
    /\ task' = Idle
    /\ UNCHANGED <<requestIdCounter, pendingRequests, hostInbox, webInbox, files,
                   preview, budget>>
    /\ UNCHANGED otherVars

(* fontFace.load() rejected: catch and finally. *)
PickFontLoadFails ==
    /\ task.pc = "pick:load"
    /\ sig' = pickFontCatch(sig, "load error")
    /\ task' = Idle
    /\ UNCHANGED <<requestIdCounter, pendingRequests, hostInbox, webInbox, files,
                   preview, budget>>
    /\ UNCHANGED otherVars

----------------------------------------------------------------------------
(* exportSpriteFont, lines 626-715 *)

ExportClick ==
    /\ sig.font # NoFont
    /\ ~sig.busy
    /\ task = Idle
    /\ budget.runs < MaxRuns
    /\ budget' = [budget EXCEPT !.runs = @ + 1]

(* The message of the throw of line 638. *)
MissingFallbackMessage == "Font is missing a '?' glyph for fallback."

(* The check of line 637 left out. *)
HasFallbackUnchecked(f) == TRUE

(* The negation of the condition of line 637. *)
HasFallback(f) == charToGlyph(f, 63).unicode # Undefined

(* String.fromCodePoint throws a RangeError on some requested code. *)
RasterThrows(cfg) == \E i \in DOMAIN cfg.codepoints : cfg.codepoints[i] > MaxCodePoint

packedBitmaps(sg) ==
    packGlyphs(glyphBitmapsOf(sg.font, charToGlyph(sg.font, 63), rasterConfig(sg)))

(* The font has no "?" glyph: the throw of line 638, catch and finally. *)
ExportMissingFallback ==
    /\ ExportClick
    /\ ~HasFallback(sig.font)
    /\ sig' = exportCatch(sig, MissingFallbackMessage)
    /\ UNCHANGED <<task, requestIdCounter, pendingRequests, hostInbox, webInbox,
                   files, preview>>
    /\ UNCHANGED otherVars

(* The rasterization loop throws: catch and finally. *)
ExportRasterFails ==
    /\ ExportClick
    /\ HasFallback(sig.font)
    /\ RasterThrows(rasterConfig(sig))
    /\ sig' = exportCatch(sig, "Invalid code point")
    /\ UNCHANGED <<task, requestIdCounter, pendingRequests, hostInbox, webInbox,
                   files, preview>>
    /\ UNCHANGED otherVars

(* packGlyphs throws: catch and finally. *)
ExportPackFails ==
    /\ ExportClick
    /\ HasFallback(sig.font)
    /\ ~RasterThrows(rasterConfig(sig))
    /\ packedBitmaps(sig).state = "threw"
    /\ sig' = exportCatch(sig, "Glyph does not fit in a page.")
    /\ UNCHANGED <<task, requestIdCounter, pendingRequests, hostInbox, webInbox,
                   files, preview>>
    /\ UNCHANGED otherVars

(* Lines 628-661: glyphs rasterized, packed and composed, the save dialog  *)
(* requested.  The locals kept across the awaits are placements and atlas; *)
(* raster records the signal values the bitmaps were rasterized with.      *)
ExportPrepared ==
    /\ ExportClick
    /\ HasFallback(sig.font)
    /\ ~RasterThrows(rasterConfig(sig))
    /\ packedBitmaps(sig).state = "returned"
    /\ LET result == packedBitmaps(sig)
       IN  /\ sig' = [sig EXCEPT !.busy = TRUE, !.status = "Saving files",
                                 !.glyphCount = Len(result.placements),
                                 !.pageCount = result.pageCount]
           /\ task' = [pc |-> "export:saveDialog", req |-> requestIdCounter,
                       run |-> budget.runs + 1,
                       raster |-> rasterConfig(sig),
                       placements |-> result.placements,
                       atlas |-> buildAtlas(result.placements, sig.antialias)]
    /\ SendRequest([kind |-> "showSaveDialog"])
    /\ UNCHANGED <<webInbox, files, preview>>
    /\ UNCHANGED otherVars

(* The save dialog returned null: lines 663-666 and finally. *)
ExportSaveCancelled ==
    \E resp \in webInbox :
        /\ Awaited(resp)
        /\ task.pc = "export:saveDialog"
        /\ resp.success
        /\ resp.path = "null"
        /\ webInbox' = webInbox \ {resp}
        /\ Settle(resp.requestId)
        /\ sig' = [sig EXCEPT !.status = "Save cancelled.", !.busy = FALSE]
        /\ task' = Idle
        /\ UNCHANGED <<files, preview, budget>>
        /\ UNCHANGED otherVars

(* The save dialog returned a path: lines 668-674, the PNG write requested. *)
ExportSaveChosen ==
    \E resp \in webInbox :
        /\ Awaited(resp)
        /\ task.pc = "export:saveDialog"
        /\ resp.success
        /\ resp.path # "null"
        /\ webInbox' = webInbox \ {resp}
        /\ SettleAndSend(resp.requestId,
               [kind |-> "writeFile", filePath |-> "png", run |-> task.run,
                content |-> task.atlas.stacked])
        /\ task' = [task EXCEPT !.pc = "export:writePng", !.req = requestIdCounter]
        /\ UNCHANGED <<sig, files, preview, budget>>
        /\ UNCHANGED otherVars

(* The PNG write was confirmed: lines 676-704, the descriptor built from   *)
(* the placements and from the signals as they are now, its write          *)
(* requested.                                                              *)
ExportPngWritten ==
    \E resp \in webInbox :
        /\ Awaited(resp)
        /\ task.pc = "export:writePng"
        /\ resp.success
        /\ webInbox' = webInbox \ {resp}
        /\ LET metadata == metadataOf(task.placements, task.atlas, sig)
           IN  /\ SettleAndSend(resp.requestId,
                      [kind |-> "writeFile", filePath |-> "asset", run |-> task.run,
                       content |-> metadata])
               /\ task' = [pc |-> "export:writeAsset", req |-> requestIdCounter,
                           run |-> task.run, raster |-> task.raster,
                           placements |-> task.placements, atlas |-> task.atlas,
                           metadata |-> metadata]
        /\ UNCHANGED <<sig, files, preview, budget>>
        /\ UNCHANGED otherVars

(* The descriptor write was confirmed: lines 706-707 and finally. *)
ExportAssetWritten ==
    \E resp \in webInbox :
        /\ Awaited(resp)
        /\ task.pc = "export:writeAsset"
        /\ resp.success
        /\ webInbox' = webInbox \ {resp}
        /\ Settle(resp.requestId)
        /\ sig' = [sig EXCEPT !.status = "Exported", !.busy = FALSE]
        /\ task' = Idle
        /\ UNCHANGED <<files, preview, budget>>
        /\ UNCHANGED otherVars

----------------------------------------------------------------------------
(* Rejections and late responses *)

(* The message of the TimeoutError of line 164. *)
TimeoutMessage == "Request timed out"

afterReject(sg, t, message) ==
    IF IsPick(t) THEN pickFontCatch(sg, message) ELSE exportCatch(sg, message)

(* The host answered with success: false: resolvePendingRequest rejects    *)
(* with FileAccessError, line 151, and the awaiting call runs its catch.   *)
RequestRejected ==
    \E resp \in webInbox :
        /\ Awaited(resp)
        /\ ~resp.success
        /\ webInbox' = webInbox \ {resp}
        /\ Settle(resp.requestId)
        /\ sig' = afterReject(sig, task, resp.error)
        /\ task' = Idle
        /\ UNCHANGED <<files, preview, budget>>
        /\ UNCHANGED otherVars

(* The timer of trackRequest fires while the id is tracked, lines 161-166: *)
(* the request is rejected with TimeoutError.                              *)
RequestTimedOut ==
    \E id \in pendingRequests :
        /\ task.pc # "idle"
        /\ task.req = id
        /\ pendingRequests' = pendingRequests \ {id}
        /\ sig' = afterReject(sig, task, TimeoutMessage)
        /\ task' = Idle
        /\ UNCHANGED <<requestIdCounter, hostInbox, webInbox, files, preview,
                       budget>>
        /\ UNCHANGED otherVars

(* A response whose id is no longer tracked: resolvePendingRequest returns *)
(* at line 131.                                                            *)
DropLateResponse ==
    \E resp \in webInbox :
        /\ resp.requestId \notin pendingRequests
        /\ webInbox' = webInbox \ {resp}
        /\ UNCHANGED <<sig, task, requestIdCounter, pendingRequests, hostInbox,
                       files, preview, budget>>
        /\ UNCHANGED otherVars

----------------------------------------------------------------------------
(* Preview of an exported sprite font (the editor of the .asset file) *)

LAYOUT_MAX_WIDTH == 600

(* const pageYOffset = m.page * fontAsset.pages.height, line 84. *)
pageYOffset(m, fontAsset) == m.page * fontAsset.pages.height

(* The source rectangles of the drawImage calls of lines 79-99. *)
sourceRects(textLines, fontAsset) ==
    [l \in DOMAIN textLines |->
        [k \in DOMAIN textLines[l].glyphs |->
            LET m == textLines[l].glyphs[k].metrics
            IN  [codepoint |-> m.codepoint,
                 srcX |-> m.x,
                 srcY |-> pageYOffset(m, fontAsset) + m.y,
                 width |-> m.width, height |-> m.height]]]

(* The preview opened on the descriptor and atlas on disk: props.value and *)
(* atlasImg (onMount, lines 22-42), then drawTextPreview, lines 55-105,    *)
(* for a text of one exported character.                                   *)
DrawTextPreview ==
    /\ files.asset # NoFile
    /\ files.png # NoFile
    /\ preview = NotRun
    /\ \E key \in DOMAIN files.asset.content.glyphs :
         preview' =
             [state |-> "drawn",
              value |-> files.asset,
              atlasImg |-> files.png,
              rects |-> sourceRects(
                  layoutText(<<files.asset.content.glyphs[key].codepoint>>,
                             LAYOUT_MAX_WIDTH, files.asset.content),
                  files.asset.content)]
    /\ UNCHANGED <<sig, task, requestIdCounter, pendingRequests, hostInbox, webInbox,
                   files, budget>>
    /\ UNCHANGED otherVars

NextTool ==
    \/ SetFontSize \/ SetFontStyle \/ SetFontWeight \/ SetPadding
    \/ SetIncludeKerning \/ SetAntialias \/ ToggleOptionalPreset \/ SetCustomRanges
    \/ HostPickFile \/ HostPickCancelled \/ HostReadFile \/ HostShowSaveDialog
    \/ HostWriteFile \/ HostFails
    \/ PickFontStart \/ PickFilePicked \/ PickFileRead \/ PickParseFails
    \/ PickFontLoaded \/ PickFontLoadFails
    \/ ExportMissingFallback \/ ExportRasterFails \/ ExportPackFails
    \/ ExportPrepared \/ ExportSaveCancelled \/ ExportSaveChosen
    \/ ExportPngWritten \/ ExportAssetWritten
    \/ RequestRejected \/ RequestTimedOut \/ DropLateResponse
    \/ DrawTextPreview

----------------------------------------------------------------------------
(* StandaloneToolProvider: the panels of the standalone tools *)

(* The commandIds of the registered tool plugins. *)
Tools == {"tile-engine.tools.spriteFont", "tile-engine.tools.generateAsset"}

(* undefined of openPanels.get. *)
NoPanel == 0

NoCalls == [c \in Tools |-> 0]

EmptyMap == [c \in {} |-> NoPanel]

(* The provider after construction, lines 14-17, and a workbench without    *)
(* tool panels.  A panel is known by the number of the createWebviewPanel  *)
(* call that made it.                                                      *)
ProviderInit ==
    /\ provider = [openPanels |-> EmptyMap, handlersMap |-> EmptyMap]
    /\ workbench = [panels |-> EmptyMap, created |-> 0, calls |-> NoCalls,
                    reveals |-> NoCalls, onOpen |-> NoCalls, onClose |-> NoCalls]

(* Map.prototype.set and Map.prototype.delete. *)
MapSet(map, key, value) == [k \in DOMAIN map \cup {key} |-> IF k = key THEN value ELSE map[k]]

MapDelete(map, key) == [k \in DOMAIN map \ {key} |-> map[k]]

(* No panel is ever found open. *)
existingPanelForgotten(pr, commandId) == NoPanel

(* this.openPanels.get(plugin.metadata.commandId), line 23. *)
existingPanel(pr, commandId) ==
    IF commandId \in DOMAIN pr.openPanels THEN pr.openPanels[commandId] ELSE NoPanel

OpenCalls == workbench.calls["tile-engine.tools.spriteFont"]
                 + workbench.calls["tile-engine.tools.generateAsset"]

(* A command of a tool is executed: openTool is called, line 22. *)
OpenToolCalled(commandId) ==
    /\ OpenCalls < MaxOpenCalls
    /\ UNCHANGED packVars
    /\ UNCHANGED layoutVars
    /\ UNCHANGED toolVars
    /\ UNCHANGED settled

(* openTool on a commandId with an entry in openPanels: reveal and return, *)
(* lines 23-27.                                                            *)
OpenToolExisting ==
    \E commandId \in Tools :
        /\ OpenToolCalled(commandId)
        /\ existingPanel(provider, commandId) # NoPanel
        /\ workbench' = [workbench EXCEPT !.calls[commandId] = @ + 1,
                                          !.reveals[commandId] = @ + 1]
        /\ UNCHANGED provider

(* openTool on a commandId without an entry: lines 29-82, up to the call of *)
(* the onOpen hook; nothing is awaited before it.                          *)
OpenToolNew ==
    \E commandId \in Tools :
        /\ OpenToolCalled(commandId)
        /\ existingPanel(provider, commandId) = NoPanel
        /\ LET panel == workbench.created + 1
           IN  /\ workbench' =
                      [workbench EXCEPT
                          !.calls[commandId] = @ + 1,
                          !.created = panel,
                          !.panels = MapSet(@, panel,
                                         [viewType |-> commandId, closing |-> FALSE]),
                          !.onOpen[commandId] = @ + 1]
               /\ provider' =
                      [openPanels |-> MapSet(provider.openPanels, commandId, panel),
                       handlersMap |-> MapSet(provider.handlersMap, commandId, panel)]

(* The user closes the tab of a panel; the extension host has not been     *)
(* told yet.                                                               *)
UserClosesPanel ==
    \E panel \in DOMAIN workbench.panels :
        /\ ~workbench.panels[panel].closing
        /\ workbench' = [workbench EXCEPT !.panels[panel].closing = TRUE]
        /\ UNCHANGED provider
        /\ UNCHANGED packVars
        /\ UNCHANGED layoutVars
        /\ UNCHANGED toolVars
        /\ UNCHANGED settled

(* The panel is disposed in the extension host: the onDidDispose listener  *)
(* of lines 73-78.                                                         *)
PanelDisposed ==
    \E panel \in DOMAIN workbench.panels :
        /\ workbench.panels[panel].closing
        /\ LET commandId == workbench.panels[panel].viewType
           IN  /\ workbench' = [workbench EXCEPT
                                   !.panels = MapDelete(@, panel),
                                   !.onClose[commandId] = @ + 1]
               /\ provider' =
                      [openPanels |-> MapDelete(provider.openPanels, commandId),
                       handlersMap |-> MapDelete(provider.handlersMap, commandId)]
        /\ UNCHANGED packVars
        /\ UNCHANGED layoutVars
        /\ UNCHANGED toolVars
        /\ UNCHANGED settled

NextPanels == OpenToolExisting \/ OpenToolNew \/ UserClosesPanel \/ PanelDisposed

----------------------------------------------------------------------------
(* Specification of the packer alone: any list of 1..MaxGlyphs bitmaps     *)
(* with distinct ascending codepoints, packed once.                        *)

PackCodepoint(i) == 64 + i

BitmapLists ==
    UNION {[1..n -> [width : PackWidths, height : PackHeights]] : n \in 1..MaxGlyphs}

InitPack ==
    /\ \E dims \in BitmapLists :
         glyphs = [i \in DOMAIN dims |->
                     [codepoint |-> PackCodepoint(i), metrics |-> dims[i]]]
    /\ packed = NotRun
    /\ LayoutIdle
    /\ ToolInit
    /\ ProviderInit
    /\ NoneSettled

Pack ==
    /\ packed = NotRun
    /\ packed' = packGlyphs(glyphs)
    /\ UNCHANGED glyphs
    /\ UNCHANGED layoutVars
    /\ UNCHANGED toolVars
    /\ UNCHANGED panelVars
    /\ UNCHANGED settled

(* A second call of packGlyphs on the same list; first keeps the outcome   *)
(* of the call before.                                                     *)
PackAgain ==
    /\ packed # NotRun
    /\ "first" \notin DOMAIN packed
    /\ packed' = [first |-> packed] @@ packGlyphs(glyphs)
    /\ UNCHANGED glyphs
    /\ UNCHANGED layoutVars
    /\ UNCHANGED toolVars
    /\ UNCHANGED panelVars
    /\ UNCHANGED settled

NextPack == Pack \/ PackAgain

SpecPack == InitPack /\ [][NextPack]_vars

----------------------------------------------------------------------------
(* Packer claims *)

Overlap(a, b) ==
    /\ a.page = b.page
    /\ a.x < b.x + b.metrics.width
    /\ b.x < a.x + a.metrics.width
    /\ a.y < b.y + b.metrics.height
    /\ b.y < a.y + a.metrics.height

(* C1: whenever packGlyphs returns, no two returned placements on the same *)
(* page have overlapping rectangles.                                       *)
C1_NoOverlap ==
    packed.state = "returned" =>
        \A i, j \in DOMAIN packed.placements :
            i # j => ~Overlap(packed.placements[i], packed.placements[j])

(* C1 witness: a returned packing with two glyphs side by side on a shelf  *)
(* and two on different shelves of one page.                               *)
C1_Witness ==
    /\ packed.state = "returned"
    /\ \E i, j \in DOMAIN packed.placements :
         /\ i # j
         /\ packed.placements[i].page = packed.placements[j].page
         /\ packed.placements[i].y = packed.placements[j].y
         /\ packed.placements[j].x > 0
    /\ \E i, j \in DOMAIN packed.placements :
         /\ packed.placements[i].page = packed.placements[j].page
         /\ packed.placements[i].y # packed.placements[j].y

InBounds(pl) ==
    /\ 0 <= pl.x
    /\ 0 <= pl.y
    /\ pl.x + pl.metrics.width <= PAGE_SIZE
    /\ pl.y + pl.metrics.height <= PAGE_SIZE

(* C2: every placement returned by packGlyphs lies inside its page.        *)
C2_InBounds ==
    packed.state = "returned" =>
        \A i \in DOMAIN packed.placements : InBounds(packed.placements[i])

(* C3: packGlyphs throws, naming an offending codepoint, whenever some     *)
(* input bitmap is wider or higher than PAGE_SIZE.                         *)
C3_TooLargeThrows ==
    (packed # NotRun /\ \E i \in DOMAIN glyphs : TooLarge(glyphs[i])) =>
        /\ packed.state = "threw"
        /\ \E i \in DOMAIN glyphs :
             TooLarge(glyphs[i]) /\ glyphs[i].codepoint = packed.codepoint

----------------------------------------------------------------------------
(* Specification of the layout engine alone: any text of up to MaxTextLen  *)
(* characters, laid out once against one of a few descriptors.             *)

LayoutAlphabet == {65, 66, 86, 90, SPACE, LF, CR}

LayoutWidths == {-1, 0, 2, 5}

GlyphEntry(cp, adv, kern) == [codepoint |-> cp, xAdvance |-> adv, kerning |-> kern]

EmptyKerning == [c \in {} |-> 0]

LayoutInfo == [lineHeight |-> 10, baseline |-> 8]

(* "A" kerns against a following "V" only, as in the example of            *)
(* docs/spritefont.md ("65": kerning { "86": -2 }).                        *)
AssetAV ==
    [info |-> LayoutInfo,
     glyphs |-> (ToDecimal(65) :> GlyphEntry(65, 2, (86 :> -1)))
             @@ (ToDecimal(66) :> GlyphEntry(66, 2, EmptyKerning))
             @@ (ToDecimal(86) :> GlyphEntry(86, 2, EmptyKerning))
             @@ (ToDecimal(SPACE) :> GlyphEntry(SPACE, 1, EmptyKerning))
             @@ (ToDecimal(QUESTION) :> GlyphEntry(QUESTION, 3, EmptyKerning))]

(* No fallback glyph and no space: characters other than A and V are       *)
(* skipped.                                                                *)
AssetNoFallback ==
    [info |-> LayoutInfo,
     glyphs |-> (ToDecimal(65) :> GlyphEntry(65, 2, (86 :> -1)))
             @@ (ToDecimal(86) :> GlyphEntry(86, 3, (65 :> 1)))]

(* Kerning in both directions and against the space. *)
AssetKerned ==
    [info |-> LayoutInfo,
     glyphs |-> (ToDecimal(65) :> GlyphEntry(65, 2, (86 :> -1) @@ (SPACE :> -2)))
             @@ (ToDecimal(86) :> GlyphEntry(86, 2, (65 :> 1)))
             @@ (ToDecimal(SPACE) :> GlyphEntry(SPACE, 1, (65 :> 1)))
             @@ (ToDecimal(QUESTION) :> GlyphEntry(QUESTION, 3, EmptyKerning))]

LayoutAssets == {AssetAV, AssetNoFallback, AssetKerned}

Texts == UNION {[1..n -> LayoutAlphabet] : n \in 0..MaxTextLen}

InitLayout ==
    /\ text \in Texts
    /\ maxWidth \in LayoutWidths
    /\ asset \in LayoutAssets
    /\ laidOut = NotRun
    /\ PackIdle
    /\ ToolInit
    /\ ProviderInit
    /\ NoneSettled

Layout ==
    /\ laidOut = NotRun
    /\ laidOut' = [state |-> "returned", lines |-> layoutText(text, maxWidth, asset)]
    /\ UNCHANGED <<text, maxWidth, asset>>
    /\ UNCHANGED packVars
    /\ UNCHANGED toolVars
    /\ UNCHANGED panelVars
    /\ UNCHANGED settled

NextLayout == Layout

SpecLayout == InitLayout /\ [][NextLayout]_vars

----------------------------------------------------------------------------
(* Layout claims *)

LaidOut == laidOut.state = "returned"

lines == laidOut.lines

(* The text holds only characters the descriptor has an entry for. *)
AllCharsInAsset ==
    \A i \in DOMAIN text : text[i] = LF \/ HasGlyph(asset, ToDecimal(text[i]))

KerningEntry(m, cp) == IF cp \in DOMAIN m.kerning THEN m.kerning[cp] ELSE 0

(* C4: the kerning adjustment applied to a character is the entry the      *)
(* previous character's metrics hold for the current character's code      *)
(* point, added to the glyph's x and to the running advance: on a line,    *)
(* each glyph stands at its predecessor's x plus the predecessor's advance *)
(* plus that entry.                                                        *)
C4_KerningPrevToCurrent ==
    (LaidOut /\ AllCharsInAsset) =>
        \A l \in DOMAIN lines : \A k \in DOMAIN lines[l].glyphs :
            k > 1 =>
                LET prev == lines[l].glyphs[k - 1]
                    cur == lines[l].glyphs[k]
                IN  cur.x = prev.x + prev.metrics.xAdvance
                              + KerningEntry(prev.metrics, cur.src.cp)

(* The segments that put a glyph on a line. *)
SegmentsOf(line) == {<<line.glyphs[k].src.para, line.glyphs[k].src.seg>> :
                        k \in DOMAIN line.glyphs}

(* C5: with wrapping enabled, every line holding more than one segment is  *)
(* at most maxWidth wide.                                                  *)
C5_WrappedWidth ==
    (LaidOut /\ maxWidth > 0) =>
        \A l \in DOMAIN lines :
            Cardinality(SegmentsOf(lines[l])) > 1 => lines[l].width <= maxWidth

(* C5 witness: a wrapped layout with a line of several segments and a line *)
(* whose single segment overflows.                                         *)
C5_Witness ==
    /\ LaidOut
    /\ maxWidth > 0
    /\ Len(lines) > 1
    /\ \E l \in DOMAIN lines : Cardinality(SegmentsOf(lines[l])) > 1
    /\ \E l \in DOMAIN lines :
         Cardinality(SegmentsOf(lines[l])) = 1 /\ lines[l].width > maxWidth

----------------------------------------------------------------------------
(* Specification of the tool: a font picked, inputs edited and exports run *)
(* within the budget of user actions, against a host that may answer,      *)
(* fail or stay silent until the request times out.                        *)

InitTool ==
    /\ ToolInit
    /\ PackIdle
    /\ LayoutIdle
    /\ ProviderInit
    /\ NoneSettled

SpecTool == InitTool /\ [][NextTool]_vars

----------------------------------------------------------------------------
(* Export claims *)

(* Export run r has ended: a later run was started or no export is in      *)
(* flight.                                                                 *)
RunEnded(r) == r < budget.runs \/ ~IsExport(task)

(* C6: once an export run has ended, it is not the case that its PNG atlas *)
(* was written while its descriptor was not.                               *)
C6_BothOrNeither ==
    \A r \in 1..budget.runs :
        RunEnded(r) => ~(files.png.run = r /\ files.asset.run # r)

(* C7: the size, style, weight, padding, antialias, lineHeight and         *)
(* baseline put into the descriptor's info block are the values the run's  *)
(* glyph bitmaps were rasterized with.                                     *)
C7_InfoIsRasterConfig ==
    task.pc = "export:writeAsset" =>
        /\ task.metadata.info.size = task.raster.fontSize
        /\ task.metadata.info.style = task.raster.fontStyle
        /\ task.metadata.info.weight = task.raster.fontWeight
        /\ task.metadata.info.padding = task.raster.padding
        /\ task.metadata.info.antialias = task.raster.antialias
        /\ task.metadata.info.lineHeight =
               lineHeightOf(sig.font, task.raster.fontSize, task.raster.padding)
        /\ task.metadata.info.baseline =
               baselinePxOf(sig.font, task.raster.fontSize, task.raster.padding)

Exported == files.asset # NoFile

descriptor == files.asset.content

PagesUsed(d) == {d.glyphs[key].page : key \in DOMAIN d.glyphs}

(* C8: in every exported descriptor info.pages is one more than the        *)
(* largest page index of a glyph, pages.width is 256 and pages.height is   *)
(* pages.width times info.pages.                                           *)
C8_PageCount ==
    Exported =>
        /\ \A pg \in PagesUsed(descriptor) : pg + 1 <= descriptor.info.pages
        /\ \E pg \in PagesUsed(descriptor) : pg + 1 = descriptor.info.pages
        /\ descriptor.pages.width = 256
        /\ descriptor.pages.height = descriptor.pages.width * descriptor.info.pages

(* C8 witness: an exported descriptor whose glyphs lie on two pages. *)
C8_Witness ==
    /\ Exported
    /\ descriptor.info.pages >= 2
    /\ {0, 1} \subseteq PagesUsed(descriptor)

(* C9: every requested code point is a key of the exported glyphs map,     *)
(* one entry each; every key is the decimal string of a requested code     *)
(* point and the entry's codepoint field is the number the key denotes.    *)
C9_RequestedAreKeys ==
    task.pc = "export:writeAsset" =>
        LET requested == task.raster.codepoints
            entries == task.metadata.glyphs
        IN  /\ \A i \in DOMAIN requested : ToDecimal(requested[i]) \in DOMAIN entries
            /\ \A i, j \in DOMAIN requested : requested[i] = requested[j] => i = j
            /\ Cardinality(DOMAIN entries) = Len(requested)
            /\ \A key \in DOMAIN entries :
                  /\ \E i \in DOMAIN requested : key = ToDecimal(requested[i])
                  /\ ToDecimal(entries[key].codepoint) = key

(* C9 witness: a descriptor under way to disk whose requested set holds a  *)
(* code point the font has no glyph for and a custom one.                  *)
C9_Witness ==
    /\ task.pc = "export:writeAsset"
    /\ \E i \in DOMAIN task.raster.codepoints :
         /\ task.raster.codepoints[i] \notin DOMAIN sig.font.cmap
         /\ task.raster.codepoints[i] # 63
    /\ \E i \in DOMAIN task.raster.codepoints : task.raster.codepoints[i] = 66

(* C10: the preview reads a glyph recorded with (page, x, y) from row      *)
(* page * 256 + y of the atlas, the rows where the composer drew it.       *)
C10_PreviewReadsComposedRows ==
    (preview # NotRun /\ preview.value.run = preview.atlasImg.run) =>
        \A l \in DOMAIN preview.rects : \A k \in DOMAIN preview.rects[l] :
            LET r == preview.rects[l][k]
                m == preview.value.content.glyphs[ToDecimal(r.codepoint)]
                sprites == preview.atlasImg.content.sprites
            IN  /\ r.srcY = m.page * 256 + m.y
                /\ \E i \in DOMAIN sprites :
                      /\ sprites[i].codepoint = r.codepoint
                      /\ sprites[i].x = r.srcX
                      /\ sprites[i].y = r.srcY

----------------------------------------------------------------------------
(* Atlas composer claims *)

(* C11: buildAtlas stacks the pages vertically in index order: the stacked *)
(* image is 256 wide and 256 * pageCount high, the glyph placed at         *)
(* (page i, x, y) is drawn at (x, i * 256 + y), and what it draws stays    *)
(* within rows [i * 256, (i + 1) * 256).                                   *)
C11_StackedInIndexOrder ==
    IsExport(task) =>
        LET stacked == task.atlas.stacked
        IN  /\ stacked.width = 256
            /\ stacked.height = 256 * task.atlas.pageCount
            /\ DOMAIN stacked.sprites = DOMAIN task.placements
            /\ \A i \in DOMAIN task.placements :
                  LET g == task.placements[i]
                      drawn == stacked.sprites[i]
                  IN  /\ g.page < task.atlas.pageCount
                      /\ drawn.codepoint = g.codepoint
                      /\ drawn.x = g.x
                      /\ drawn.y = g.page * 256 + g.y
                      /\ g.page * 256 <= drawn.y
                      /\ drawn.y + drawn.h <= (g.page + 1) * 256
                      /\ drawn.y + drawn.h <= stacked.height

(* C11 witness: an atlas of two pages composed, with glyphs drawn in the   *)
(* rows of page 0 and in the rows of page 1, one of them below the top of  *)
(* its page.                                                               *)
C11_Witness ==
    /\ IsExport(task)
    /\ task.atlas.pageCount = 2
    /\ \E i \in DOMAIN task.placements : task.placements[i].page = 0
    /\ \E i \in DOMAIN task.placements :
         /\ task.placements[i].page = 1
         /\ task.placements[i].y > 0
         /\ task.atlas.stacked.sprites[i].y > 256

----------------------------------------------------------------------------
(* Layout claims: lookup misses *)

(* The glyphs of all lines, in line order. *)
RECURSIVE GlyphsOf(_)
GlyphsOf(textLines) ==
    IF textLines = << >> THEN << >>
    ELSE Head(textLines).glyphs \o GlyphsOf(Tail(textLines))

(* The character has an entry of its own or the fallback entry "63". *)
Renderable(cp) ==
    HasGlyph(asset, ToDecimal(cp)) \/ HasGlyph(asset, ToDecimal(63))

(* The character at position i belongs to a paragraph separator: a line   *)
(* feed, or a carriage return directly before one.                         *)
IsSeparator(t, i) ==
    \/ t[i] = LF
    \/ t[i] = CR /\ i < Len(t) /\ t[i + 1] = LF

(* The characters of the text outside the paragraph separators that have   *)
(* an entry or the fallback, from position i on.                           *)
RECURSIVE PrintedFrom(_, _)
PrintedFrom(t, i) ==
    IF i > Len(t) THEN << >>
    ELSE IF ~IsSeparator(t, i) /\ Renderable(t[i])
         THEN <<t[i]>> \o PrintedFrom(t, i + 1)
         ELSE PrintedFrom(t, i + 1)

Printed(t) == PrintedFrom(t, 1)

(* C12: layoutText returns for every text.  A character without an entry   *)
(* is laid out with the metrics of "63"; without "63" either it is         *)
(* skipped: the placed glyphs are, in order, those of the characters that  *)
(* have an entry or the fallback, and a line is as wide as its glyphs make *)
(* it (the first at x = 0, each next one at the advance of the one before  *)
(* it plus the kerning applied, the width ending at the last advance).     *)
C12_FallbackThenSkip ==
    laidOut # NotRun =>
        /\ laidOut.state = "returned"
        /\ LET placed == GlyphsOf(lines)
           IN  /\ Len(placed) = Len(Printed(text))
               /\ \A k \in DOMAIN placed :
                     /\ placed[k].src.cp = Printed(text)[k]
                     /\ placed[k].metrics =
                            IF HasGlyph(asset, ToDecimal(placed[k].src.cp))
                            THEN asset.glyphs[ToDecimal(placed[k].src.cp)]
                            ELSE asset.glyphs[ToDecimal(63)]
        /\ \A l \in DOMAIN lines :
              LET gs == lines[l].glyphs
              IN  IF gs = << >> THEN lines[l].width = 0
                  ELSE /\ gs[1].x = 0
                       /\ lines[l].width = gs[Len(gs)].x + gs[Len(gs)].metrics.xAdvance
                       /\ \A k \in 2..Len(gs) :
                             gs[k].x = gs[k - 1].x + gs[k - 1].metrics.xAdvance
                                         + Kern(gs[k].metrics, gs[k - 1].src.cp)

(* C12 witness: a descriptor without "63", a text with a character it has  *)
(* no entry for between two it has, both laid out on one line.             *)
C12_Witness ==
    /\ LaidOut
    /\ ~HasGlyph(asset, ToDecimal(63))
    /\ \E i \in DOMAIN text :
         /\ ~IsSeparator(text, i)
         /\ ~Renderable(text[i])
         /\ \E l \in DOMAIN lines : \E k \in DOMAIN lines[l].glyphs :
               /\ k > 1
               /\ lines[l].glyphs[k - 1].src.idx < i
               /\ lines[l].glyphs[k].src.idx > i
               /\ lines[l].glyphs[k].src.seg = lines[l].glyphs[k - 1].src.seg

----------------------------------------------------------------------------
(* Export claims: the fallback glyph *)

(* C13: an export started on a font without a glyph for "?" ends in the    *)
(* same step with the missing-fallback error: nothing was rasterized or    *)
(* packed (glyph and page counts keep their values), no request went to    *)
(* the host, no call is left in flight and the files are as they were;     *)
(* and while that error is shown no file of that run exists.               *)
C13_MissingFallbackAborts ==
    /\ [][(sig.font # NoFont /\ ~(charToGlyph(sig.font, 63).unicode # Undefined)
              /\ budget'.runs = budget.runs + 1)
           => /\ sig'.status = MissingFallbackMessage
              /\ ~sig'.busy
              /\ sig'.glyphCount = sig.glyphCount
              /\ sig'.pageCount = sig.pageCount
              /\ task' = Idle
              /\ requestIdCounter' = requestIdCounter
              /\ pendingRequests' = pendingRequests
              /\ hostInbox' = hostInbox
              /\ files' = files]_vars
    /\ [](sig.status = MissingFallbackMessage
            => /\ task = Idle
               /\ files.png.run # budget.runs
               /\ files.asset.run # budget.runs)

(* C13 witness: an export was started on the font without "?" and ended    *)
(* with the error.                                                         *)
C13_Witness ==
    /\ budget.runs > 0
    /\ sig.font = FontNoQuestion
    /\ sig.status = MissingFallbackMessage
    /\ ~sig.busy

----------------------------------------------------------------------------
(* Export claims: whitespace entries *)

(* The bitmap rasterized for a requested code point in the run in flight. *)
BitmapOf(cp) ==
    LET i == CHOOSE i \in DOMAIN task.placements : task.placements[i].codepoint = cp
    IN  task.placements[i].canvas

Requested(cp) == \E i \in DOMAIN task.raster.codepoints : task.raster.codepoints[i] = cp

(* The advance of the font's space glyph at the size of the run, in px. *)
SpaceAdvance ==
    ScaledPx(charToGlyph(sig.font, 32).advanceWidth, task.raster.fontSize, sig.font)

(* C14: in an exported descriptor the entry of the tab advances by four    *)
(* space advances and its bitmap has nothing drawn; the entries of space   *)
(* and NBSP have nothing drawn, advance by the space advance and are       *)
(* ceil(ascender + |descender| + 2 * padding) high, whether or not the     *)
(* font maps these code points.                                            *)
C14_WhitespaceEntries ==
    task.pc = "export:writeAsset" =>
        LET entries == task.metadata.glyphs
            f == sig.font
            size == task.raster.fontSize
            pad == task.raster.padding
        IN  /\ Requested(9) =>
                  /\ entries[ToDecimal(9)].xAdvance = 4 * SpaceAdvance
                  /\ BitmapOf(9).drawn = NoCP
            /\ \A cp \in {32, 160} :
                  Requested(cp) =>
                      /\ BitmapOf(cp).drawn = NoCP
                      /\ entries[ToDecimal(cp)].xAdvance = SpaceAdvance
                      /\ entries[ToDecimal(cp)].height =
                            CeilDiv((f.ascender + Abs(f.descender)) * size
                                        + 2 * pad * f.unitsPerEm, f.unitsPerEm)

----------------------------------------------------------------------------
(* Export claims: fallback entries *)

(* C15: the exported entry of a requested code point the font has no glyph *)
(* for has the bitmap and the width, height, xAdvance, offsets, baseline,  *)
(* bounds and kerning of the entry of "?", under the key and with the      *)
(* codepoint of the requested code point.                                  *)
C15_FallbackEntry ==
    task.pc = "export:writeAsset" =>
        \A i \in DOMAIN task.raster.codepoints :
            LET cp == task.raster.codepoints[i]
                entries == task.metadata.glyphs
            IN  cp \notin DOMAIN sig.font.cmap =>
                    /\ ToDecimal(cp) \in DOMAIN entries
                    /\ ToDecimal(63) \in DOMAIN entries
                    /\ LET own == entries[ToDecimal(cp)]
                           fallback == entries[ToDecimal(63)]
                       IN  /\ own.codepoint = cp
                           /\ own.width = fallback.width
                           /\ own.height = fallback.height
                           /\ own.xAdvance = fallback.xAdvance
                           /\ own.xOffset = fallback.xOffset
                           /\ own.yOffset = fallback.yOffset
                           /\ own.baseline = fallback.baseline
                           /\ own.bounds = fallback.bounds
                           /\ own.kerning = fallback.kerning
                    /\ BitmapOf(cp) = BitmapOf(63)

(* C15 witness: a descriptor under way to disk for a font that lacks a     *)
(* requested digit, with kerning recorded for "?", rasterized at a size    *)
(* other than the default.                                                 *)
C15_Witness ==
    /\ task.pc = "export:writeAsset"
    /\ Requested(57)
    /\ 57 \notin DOMAIN sig.font.cmap
    /\ task.metadata.glyphs[ToDecimal(57)].codepoint = 57
    /\ BitmapOf(57).drawn = 63
    /\ task.metadata.glyphs[ToDecimal(57)].kerning # EmptyKerning
    /\ task.raster.fontSize = 128

----------------------------------------------------------------------------
(* Layout claims: paragraphs *)

(* The number of line feeds of the text. *)
LineFeeds(t) == Cardinality({i \in DOMAIN t : t[i] = LF})

(* C16: with wrapping disabled layoutText returns one line per paragraph,  *)
(* in order: as many lines as the text has line feeds plus one, line p     *)
(* holding glyphs of paragraph p only, and an empty paragraph giving a     *)
(* line without glyphs, of width 0 and height info.lineHeight.             *)
C16_OneLinePerParagraph ==
    (LaidOut /\ maxWidth <= 0) =>
        /\ Len(lines) = LineFeeds(text) + 1
        /\ \A p \in DOMAIN lines :
              /\ \A k \in DOMAIN lines[p].glyphs : lines[p].glyphs[k].src.para = p
              /\ lines[p].height = asset.info.lineHeight
              /\ (p \in DOMAIN SplitParagraphs(text) /\ SplitParagraphs(text)[p] = << >>)
                    => (lines[p].glyphs = << >> /\ lines[p].width = 0)

----------------------------------------------------------------------------
(* Layout claims: wrapping at a space *)

(* The code points the glyphs of a line were placed for. *)
CodesOf(line) == [k \in DOMAIN line.glyphs |-> line.glyphs[k].src.cp]

(* C17: "A B" laid out at a maxWidth equal to the advance of "A", with     *)
(* positive advances for the space and for "B", has "A" alone on the first *)
(* line and a second line that begins with " B" or with "B".               *)
C17_WrapAtSpace ==
    (/\ LaidOut
     /\ text = <<65, SPACE, 66>>
     /\ \A cp \in {65, SPACE, 66} :
           HasGlyph(asset, ToDecimal(cp)) /\ asset.glyphs[ToDecimal(cp)].xAdvance > 0
     /\ maxWidth = asset.glyphs[ToDecimal(65)].xAdvance)
    => /\ Len(lines) >= 2
       /\ CodesOf(lines[1]) = <<65>>
       /\ \/ (Len(lines[2].glyphs) >= 1 /\ CodesOf(lines[2])[1] = 66)
          \/ (/\ Len(lines[2].glyphs) >= 2
              /\ CodesOf(lines[2])[1] = SPACE
              /\ CodesOf(lines[2])[2] = 66)

----------------------------------------------------------------------------
(* Packer claims: determinism *)

----------------------------------------------------------------------------
(* Specification of the tool panels: commands executed and panels closed   *)
(* in any order.                                                           *)

InitPanels ==
    /\ ProviderInit
    /\ PackIdle
    /\ LayoutIdle
    /\ ToolInit
    /\ NoneSettled

SpecPanels == InitPanels /\ [][NextPanels]_vars

(* The panels that exist for a tool. *)
PanelsOf(commandId) ==
    {panel \in DOMAIN workbench.panels : workbench.panels[panel].viewType = commandId}

(* C19: at most one panel exists per commandId at any time; an openTool    *)
(* call for a tool that has a panel reveals it, creates no panel and does  *)
(* not run onOpen; an openTool call for a tool without a panel (none yet,  *)
(* or disposed) creates a panel not seen before and runs onOpen once.      *)
C19_SingletonPanels ==
    /\ [](\A commandId \in Tools : Cardinality(PanelsOf(commandId)) <= 1)
    /\ [][\A commandId \in Tools :
            workbench'.calls[commandId] = workbench.calls[commandId] + 1 =>
                IF PanelsOf(commandId) # {}
                THEN /\ workbench'.panels = workbench.panels
                     /\ workbench'.created = workbench.created
                     /\ workbench'.onOpen = workbench.onOpen
                     /\ workbench'.reveals[commandId] = workbench.reveals[commandId] + 1
                ELSE /\ workbench'.created = workbench.created + 1
                     /\ DOMAIN workbench'.panels =
                            DOMAIN workbench.panels \cup {workbench'.created}
                     /\ workbench'.panels[workbench'.created].viewType = commandId
                     /\ workbench'.onOpen[commandId] = workbench.onOpen[commandId] + 1
                     /\ workbench'.reveals = workbench.reveals]_vars

(* C19 witness: a tool was opened, asked for again while open, closed, and *)
(* opened again with a new panel, while the other tool has its panel.      *)
C19_Witness ==
    \E commandId \in Tools :
        /\ workbench.reveals[commandId] > 0
        /\ workbench.onClose[commandId] > 0
        /\ \E panel \in PanelsOf(commandId) : panel > 1
        /\ \E other \in Tools : other # commandId /\ PanelsOf(other) # {}

----------------------------------------------------------------------------
(* Specification of the message service: readFile called up to MaxRequests *)
(* times without waiting for earlier calls, a host that answers each       *)
(* request with the content or with an error, in any order and at any      *)
(* time, and the timers of trackRequest.                                   *)

(* The files readFile is called for. *)
ReadPaths == {"latin.ttf", "noquestion.ttf"}

(* readFile, lines 184-192: the request tracked and posted. *)
ReadFileCalled ==
    /\ requestIdCounter < MaxRequests
    /\ \E filePath \in ReadPaths :
         SendRequest([kind |-> "readFile", filePath |-> filePath])
    /\ UNCHANGED <<sig, task, webInbox, files, preview, budget>>
    /\ UNCHANGED otherVars

(* What the promise of a request is settled with by a response, lines      *)
(* 136-152.                                                                *)
Settlement(resp) ==
    [requestId |-> resp.requestId,
     outcome |-> IF resp.success THEN "resolved" ELSE "rejected",
     with |-> IF resp.success THEN resp.content ELSE resp.error]

(* routeMessage and resolvePendingRequest, lines 129-153, on a response    *)
(* whose id is tracked.                                                    *)
ResponseSettles ==
    \E resp \in webInbox :
        /\ resp.requestId \in pendingRequests
        /\ webInbox' = webInbox \ {resp}
        /\ Settle(resp.requestId)
        /\ settled' = Append(settled, Settlement(resp))
        /\ UNCHANGED <<sig, task, files, preview, budget>>
        /\ UNCHANGED packVars
        /\ UNCHANGED layoutVars
        /\ UNCHANGED panelVars

(* The callback of setTimeout, lines 161-166, for a tracked id. *)
TimerFiresFor(id) ==
    /\ id \in pendingRequests
    /\ pendingRequests' = pendingRequests \ {id}
    /\ settled' = Append(settled, [requestId |-> id, outcome |-> "rejected",
                                   with |-> TimeoutMessage])
    /\ UNCHANGED <<sig, task, requestIdCounter, hostInbox, webInbox, files, preview,
                   budget>>
    /\ UNCHANGED packVars
    /\ UNCHANGED layoutVars
    /\ UNCHANGED panelVars

TimerFires == \E id \in pendingRequests : TimerFiresFor(id)

NextMessages ==
    \/ ReadFileCalled \/ HostReadFile \/ HostFails
    \/ ResponseSettles \/ TimerFires \/ DropLateResponse

InitMessages ==
    /\ ToolInit
    /\ PackIdle
    /\ LayoutIdle
    /\ ProviderInit
    /\ NoneSettled

(* The ids trackRequest hands out within the bound. *)
RequestIds == 0 .. MaxRequests

(* A timer set by setTimeout fires. *)
SpecMessages ==
    InitMessages /\ [][NextMessages]_vars
        /\ \A id \in RequestIds : WF_vars(TimerFiresFor(id))

----------------------------------------------------------------------------
(* Message service claims *)

SettledIds == {settled[i].requestId : i \in DOMAIN settled}

(* C20: every tracked request settles exactly once.  No id is settled      *)
(* twice, a tracked id is pending or settled and never both, ids are       *)
(* handed out by a counter that never goes back; a request is settled by   *)
(* the routing of a response that carries its id (resolved with the        *)
(* content on success, rejected with the error otherwise) or by its timer  *)
(* (rejected with the timeout error) and leaves pendingRequests in that    *)
(* step; a response for an id that is not pending settles nothing; and     *)
(* every pending request is settled in the end.                            *)
C20_SettlesExactlyOnce ==
    /\ [](\A i, j \in DOMAIN settled :
            settled[i].requestId = settled[j].requestId => i = j)
    /\ [](\A id \in RequestIds :
            id < requestIdCounter <=> (id \in pendingRequests) # (id \in SettledIds))
    /\ [][/\ requestIdCounter' >= requestIdCounter
          /\ \A id \in pendingRequests' \ pendingRequests :
                id = requestIdCounter /\ requestIdCounter' = requestIdCounter + 1]_vars
    /\ [][settled' # settled =>
            /\ Len(settled') = Len(settled) + 1
            /\ SubSeq(settled', 1, Len(settled)) = settled
            /\ LET s == settled'[Len(settled')]
               IN  /\ pendingRequests' = pendingRequests \ {s.requestId}
                   /\ s.requestId \in pendingRequests
                   /\ \/ \E resp \in webInbox :
                            /\ webInbox' = webInbox \ {resp}
                            /\ resp.requestId = s.requestId
                            /\ IF resp.success
                               THEN s.outcome = "resolved" /\ s.with = resp.content
                               ELSE s.outcome = "rejected" /\ s.with = resp.error
                      \/ /\ webInbox' = webInbox
                         /\ s.outcome = "rejected"
                         /\ s.with = "Request timed out"]_vars
    /\ [][pendingRequests' # pendingRequests =>
            (settled' # settled \/ requestIdCounter' # requestIdCounter)]_vars
    /\ [][\A resp \in webInbox \ webInbox' :
            resp.requestId \notin pendingRequests
            => (settled' = settled /\ pendingRequests' = pendingRequests)]_vars
    /\ \A id \in RequestIds : (id \in pendingRequests) ~> (id \in SettledIds)

(* C20 witness: of three requests one was resolved, one rejected by the    *)
(* host and one timed out with its response arriving afterwards, the       *)
(* second request settled before the first.                                *)
C20_Witness ==
    /\ Len(settled) = 3
    /\ \E i, j, k \in DOMAIN settled :
         /\ settled[i].outcome = "resolved"
         /\ settled[j].outcome = "rejected" /\ settled[j].with # TimeoutMessage
         /\ settled[k].with = TimeoutMessage
         /\ \E resp \in webInbox : resp.requestId = settled[k].requestId
    /\ settled[1].requestId = 1

----------------------------------------------------------------------------
(* Packer claims on the order of the scan *)

(* The shelves that exist before the k-th placement, rebuilt from the      *)
(* placements before it: a shelf is a (page, y) pair, its height that of   *)
(* the glyph that opened it and its x the sum of the widths placed on it.  *)
ShelfKeysBefore(ps, k) == {<<ps[j].page, ps[j].y>> : j \in 1..(k - 1)}

RECURSIVE SumWidths(_, _)
SumWidths(ps, js) ==
    IF js = {} THEN 0
    ELSE LET j == CHOOSE m \in js : TRUE
         IN  ps[j].metrics.width + SumWidths(ps, js \ {j})

ShelfBefore(ps, k, key) ==
    LET on == {j \in 1..(k - 1) : <<ps[j].page, ps[j].y>> = key}
        opener == CHOOSE j \in on : ps[j].x = 0
    IN  [y |-> key[2], height |-> ps[opener].metrics.height, x |-> SumWidths(ps, on)]

KeyBefore(a, b) == a[1] < b[1] \/ (a[1] = b[1] /\ a[2] <= b[2])

(* C21: each bitmap is placed on the first existing shelf over all pages   *)
(* (page order, then shelf order within the page) that has the width and   *)
(* height left for it; a new shelf is opened only when no existing shelf   *)
(* of any page fits.                                                       *)
C21_FirstFitOverAllPages ==
    packed.state = "returned" =>
        \A k \in DOMAIN packed.placements :
            LET ps == packed.placements
                fit == {key \in ShelfKeysBefore(ps, k) :
                            ShelfFits(ShelfBefore(ps, k, key), ps[k])}
            IN  fit # {} =>
                    /\ <<ps[k].page, ps[k].y>> \in fit
                    /\ \A key \in fit : KeyBefore(<<ps[k].page, ps[k].y>>, key)
                    /\ ps[k].x = ShelfBefore(ps, k, <<ps[k].page, ps[k].y>>).x

(* The position of a placed bitmap in the request, by its codepoint. *)
RequestIndex(pl) == CHOOSE i \in DOMAIN glyphs : glyphs[i].codepoint = pl.codepoint

(* C22: packGlyphs handles the bitmaps by height descending, bitmaps of    *)
(* equal height in request order: the placements are returned in that      *)
(* order, one for each requested bitmap, and a bitmap put on an existing   *)
(* shelf is never higher than the shelf.                                   *)
C22_StableHeightDescending ==
    packed.state = "returned" =>
        LET ps == packed.placements
        IN  /\ Len(ps) = Len(glyphs)
            /\ \A k \in DOMAIN ps :
                 /\ \E i \in DOMAIN glyphs :
                      /\ glyphs[i].codepoint = ps[k].codepoint
                      /\ glyphs[i].metrics = ps[k].metrics
                 /\ <<ps[k].page, ps[k].y>> \in ShelfKeysBefore(ps, k) =>
                      ps[k].metrics.height
                          <= ShelfBefore(ps, k, <<ps[k].page, ps[k].y>>).height
            /\ \A k, m \in DOMAIN ps :
                 k < m =>
                   \/ ps[k].metrics.height > ps[m].metrics.height
                   \/ /\ ps[k].metrics.height = ps[m].metrics.height
                      /\ RequestIndex(ps[k]) < RequestIndex(ps[m])

(* C22 witness: the lowest bitmap was requested first and is placed last,  *)
(* on the shelf opened by a higher one; the other two have equal height    *)
(* and different widths and keep their request order.                      *)
C22_Witness ==
    /\ packed.state = "returned"
    /\ Len(glyphs) = 3
    /\ glyphs[1].metrics.height < glyphs[2].metrics.height
    /\ glyphs[2].metrics.height = glyphs[3].metrics.height
    /\ glyphs[2].metrics.width # glyphs[3].metrics.width
    /\ packed.placements[1].codepoint = glyphs[2].codepoint
    /\ packed.placements[2].codepoint = glyphs[3].codepoint
    /\ packed.placements[3].codepoint = glyphs[1].codepoint
    /\ packed.placements[3].x > 0
    /\ packed.placements[3].metrics.height
           < ShelfBefore(packed.placements, 3,
                 <<packed.placements[3].page, packed.placements[3].y>>).height

----------------------------------------------------------------------------
(* Layout claims on segments, lines and kerning *)

(* The pen position after the k-th glyph of a line, 0 before the first. *)
PenAfter(line, k) ==
    IF k = 0 THEN 0 ELSE line.glyphs[k].x + line.glyphs[k].metrics.xAdvance

(* The width a segment takes on its line: from the pen position before its *)
(* first glyph to the pen position after its last.                         *)
PlacedWidth(line, key) ==
    LET on == {k \in DOMAIN line.glyphs :
                  <<line.glyphs[k].src.para, line.glyphs[k].src.seg>> = key}
        first == CHOOSE k \in on : \A m \in on : k <= m
        last == CHOOSE k \in on : \A m \in on : k >= m
    IN  PenAfter(line, last) - PenAfter(line, first - 1)

KernOnLine(line, k) ==
    Kern(line.glyphs[k].metrics, CharCodeAt0(line.glyphs[k - 1].src.cp))

(* Whether line l goes on the paragraph of the line before it, that is,    *)
(* was started by a wrap.                                                  *)
StartedByWrap(l) ==
    /\ l > 1
    /\ lines[l].glyphs # << >>
    /\ lines[l - 1].glyphs # << >>
    /\ lines[l].glyphs[1].src.para = lines[l - 1].glyphs[1].src.para

(* C24: kerning state does not carry across lines.  The first glyph of     *)
(* every line, paragraph start or wrap, stands at x = 0 whatever the last  *)
(* character of the line before; every other glyph stands at the pen       *)
(* position after its predecessor on the line plus the adjustment taken    *)
(* against that predecessor; and the line's width is the pen position      *)
(* after its last glyph: all as measured from x = 0.                       *)
C24_NoKerningAcrossLines ==
    LaidOut =>
        \A l \in DOMAIN lines :
            LET line == lines[l]
            IN  /\ line.glyphs # << >> => line.glyphs[1].x = 0
                /\ \A k \in DOMAIN line.glyphs :
                     k > 1 => line.glyphs[k].x
                                  = PenAfter(line, k - 1) + KernOnLine(line, k)
                /\ line.width = PenAfter(line, Len(line.glyphs))

(* C24 witness: a line started by a wrap and a line that starts a          *)
(* paragraph, each beginning with a glyph that has a kerning entry for the *)
(* last character of the line before.                                      *)
C24_Witness ==
    /\ LaidOut
    /\ \E l \in DOMAIN lines :
         /\ StartedByWrap(l)
         /\ Kern(lines[l].glyphs[1].metrics,
                 CharCodeAt0(lines[l - 1].glyphs[Len(lines[l - 1].glyphs)].src.cp)) # 0
    /\ \E l \in DOMAIN lines :
         /\ l > 1
         /\ ~StartedByWrap(l)
         /\ lines[l].glyphs # << >>
         /\ lines[l - 1].glyphs # << >>
         /\ Kern(lines[l].glyphs[1].metrics,
                 CharCodeAt0(lines[l - 1].glyphs[Len(lines[l - 1].glyphs)].src.cp)) # 0

----------------------------------------------------------------------------
(* Specification of the layout engine on texts with characters above       *)
(* U+FFFF, against descriptors the generator exports for a custom range    *)
(* that holds such a code point: exportSpriteFont keys every glyph by      *)
(* glyph.codepoint.toString().                                             *)

(* 128512 is U+1F600, two UTF-16 code units in a string. *)
AstralAlphabet == {65, 128512, SPACE, LF}

AssetAstral ==
    [info |-> LayoutInfo,
     glyphs |-> (ToDecimal(65) :> GlyphEntry(65, 2, EmptyKerning))
             @@ (ToDecimal(SPACE) :> GlyphEntry(SPACE, 1, EmptyKerning))
             @@ (ToDecimal(QUESTION) :> GlyphEntry(QUESTION, 3, EmptyKerning))
             @@ (ToDecimal(128512) :> GlyphEntry(128512, 4, EmptyKerning))]

AssetAstralNoFallback ==
    [info |-> LayoutInfo,
     glyphs |-> (ToDecimal(65) :> GlyphEntry(65, 2, EmptyKerning))
             @@ (ToDecimal(128512) :> GlyphEntry(128512, 4, EmptyKerning))]

InitAstral ==
    /\ text \in UNION {[1..n -> AstralAlphabet] : n \in 0..MaxTextLen}
    /\ maxWidth \in {0, 5}
    /\ asset \in {AssetAstral, AssetAstralNoFallback}
    /\ laidOut = NotRun
    /\ PackIdle
    /\ ToolInit
    /\ ProviderInit
    /\ NoneSettled

SpecAstral == InitAstral /\ [][NextLayout]_vars

(* C25: layoutText looks every character up under the decimal string of    *)
(* its code point: each character outside the paragraph separators whose   *)
(* code point is a key of asset.glyphs, those above U+FFFF included, is     *)
(* laid out, and with that entry, not with the fallback.                   *)
C25_LookupByCodepoint ==
    LaidOut =>
        LET placed == GlyphsOf(lines)
            keyed == {i \in DOMAIN text :
                         ~IsSeparator(text, i) /\ HasGlyph(asset, ToDecimal(text[i]))}
        IN  /\ Cardinality(keyed)
                 = Cardinality({k \in DOMAIN placed :
                                   HasGlyph(asset, ToDecimal(placed[k].src.cp))})
            /\ \A k \in DOMAIN placed :
                 HasGlyph(asset, ToDecimal(placed[k].src.cp))
                     => placed[k].metrics = asset.glyphs[ToDecimal(placed[k].src.cp)]

----------------------------------------------------------------------------
(* Specification of the descriptor's line metrics: a font with ascender    *)
(* and descender of either sign is loaded, size and padding are set, and   *)
(* one export builds the descriptor with no edit in between.               *)

MetricFonts ==
    {[FontLatin EXCEPT !.ascender = a, !.descender = d] :
        a \in {48, 56}, d \in {-16, 0, 16}}

InitMetrics ==
    /\ \E f \in MetricFonts, size \in {16, 32, 128}, pad \in PaddingInputs,
          kerning \in BOOLEAN :
         sig = [InitialSignals EXCEPT !.font = f, !.fontFamily = f.name,
                                      !.fontName = f.name, !.fontSize = size,
                                      !.padding = pad, !.includeKerning = kerning]
    /\ task = Idle
    /\ requestIdCounter = 0
    /\ pendingRequests = {}
    /\ hostInbox = {}
    /\ webInbox = {}
    /\ files = [png |-> NoFile, asset |-> NoFile]
    /\ preview = NotRun
    /\ budget = [edits |-> 0, picks |-> 0, runs |-> 0]
    /\ PackIdle
    /\ LayoutIdle
    /\ ProviderInit
    /\ NoneSettled

(* The descriptor of exportSpriteFont, lines 642-702, for the signals as   *)
(* they are: rasterize, pack, compose, build the metadata.                 *)
BuildDescriptor ==
    /\ asset = NotRun
    /\ HasFallback(sig.font)
    /\ packedBitmaps(sig).state = "returned"
    /\ LET result == packedBitmaps(sig)
       IN  asset' = metadataOf(result.placements,
                               buildAtlas(result.placements, sig.antialias), sig)
    /\ UNCHANGED <<text, maxWidth, laidOut>>
    /\ UNCHANGED packVars
    /\ UNCHANGED toolVars
    /\ UNCHANGED panelVars
    /\ UNCHANGED settled

NextMetrics == BuildDescriptor

SpecMetrics == InitMetrics /\ [][NextMetrics]_vars

SrcBefore(a, b) ==
    \/ a.src.para < b.src.para
    \/ a.src.para = b.src.para /\ a.src.seg < b.src.seg
    \/ a.src.para = b.src.para /\ a.src.seg = b.src.seg /\ a.src.idx < b.src.idx

(* C27: layoutText conserves characters.  For any text and maxWidth the    *)
(* glyphs of the returned lines, taken in order, are one for each          *)
(* character outside the paragraph separators that has an entry or the     *)
(* fallback, in text order; none is dropped and none comes twice, wrap or  *)
(* no wrap.                                                                *)
C27_CharactersConserved ==
    LaidOut =>
        LET placed == GlyphsOf(lines)
        IN  /\ [k \in DOMAIN placed |-> placed[k].src.cp] = Printed(text)
            /\ \A k, m \in DOMAIN placed : k < m => SrcBefore(placed[k], placed[m])

----------------------------------------------------------------------------
(* Specification of a font pick made while a font is loaded: the tool as   *)
(* an earlier pickFont left it (lines 344-348) and with a font size and    *)
(* custom ranges typed in, then pickFont again with every outcome of the   *)
(* host and of the message service.                                        *)

LoadedSignals(path) ==
    [InitialSignals EXCEPT !.font = parseFont(path), !.fontFamily = "SpriteFont-r",
                           !.fontName = parseFont(path).name, !.fontPath = path,
                           !.status = "Loaded font"]

InitRepick ==
    /\ \E path \in ReadPaths, size \in FontSizeInputs \ {0},
          custom \in CustomRangeInputs :
         sig = [LoadedSignals(path) EXCEPT !.fontSize = size,
                                           !.customRanges = custom]
    /\ task = Idle
    /\ requestIdCounter = 2
    /\ pendingRequests = {}
    /\ hostInbox = {}
    /\ webInbox = {}
    /\ files = [png |-> NoFile, asset |-> NoFile]
    /\ preview = NotRun
    /\ budget = [edits |-> 0, picks |-> 0, runs |-> 0]
    /\ PackIdle
    /\ LayoutIdle
    /\ ProviderInit
    /\ NoneSettled

NextRepick ==
    \/ PickFontStart \/ PickFilePicked \/ PickFileRead \/ PickParseFails
    \/ PickFontLoaded \/ PickFontLoadFails
    \/ HostPickFile \/ HostPickCancelled \/ HostReadFile \/ HostFails
    \/ RequestRejected \/ RequestTimedOut \/ DropLateResponse

SpecRepick == InitRepick /\ [][NextRepick]_vars

(* What pickFont sets when a font is loaded, lines 344-347. *)
FontState(sg) == <<sg.font, sg.fontFamily, sg.fontName, sg.fontPath>>

(* C28: a font pick that ends without loading a font (cancelled, timed     *)
(* out, failed on the host, in parsing or in loading) leaves font,         *)
(* fontFamily, fontName and fontPath as they were, the loaded font still   *)
(* there for preview and export.                                           *)
C28_FailedPickKeepsFont ==
    [][(IsPick(task) /\ task' = Idle /\ sig'.status # "Loaded font")
          => (FontState(sig') = FontState(sig) /\ sig'.font # NoFont)]_vars

----------------------------------------------------------------------------
(* Specification of the busy flag: a font is loaded, the user picks a font *)
(* and exports, in any order, with every outcome of the host and of the    *)
(* message service.  The timer of a tracked request fires unless the       *)
(* request was settled before (setTimeout of trackRequest), and            *)
(* fontFace.load() settles one way or the other.                           *)

NextBusy ==
    \/ PickFontStart \/ PickFilePicked \/ PickFileRead \/ PickParseFails
    \/ PickFontLoaded \/ PickFontLoadFails
    \/ ExportMissingFallback \/ ExportRasterFails \/ ExportPackFails
    \/ ExportPrepared \/ ExportSaveCancelled \/ ExportSaveChosen
    \/ ExportPngWritten \/ ExportAssetWritten
    \/ HostPickFile \/ HostPickCancelled \/ HostReadFile \/ HostShowSaveDialog
    \/ HostWriteFile \/ HostFails
    \/ RequestRejected \/ RequestTimedOut \/ DropLateResponse

SpecBusy ==
    InitRepick /\ [][NextBusy]_vars
        /\ WF_vars(RequestTimedOut)
        /\ WF_vars(PickFontLoaded \/ PickFontLoadFails)

(* C29: busy is true exactly while a pickFont or an exportSpriteFont call  *)
(* is in flight; a call starts only when busy is false, so at most one of  *)
(* the two is in flight, and a call in flight is never replaced by one of  *)
(* the other kind; and busy returns to false after every outcome, every    *)
(* host request being answered or timing out.                              *)
C29_BusyWhileInFlight ==
    /\ [](sig.busy <=> (IsPick(task) \/ IsExport(task)))
    /\ [](~(IsPick(task) /\ IsExport(task)))
    /\ [][(task = Idle /\ task' # Idle) => (~sig.busy /\ sig'.busy)]_vars
    /\ [][(task # Idle /\ task' # Idle) => (IsPick(task) <=> IsPick(task'))]_vars
    /\ [][(task # Idle /\ task' = Idle) => ~sig'.busy]_vars
    /\ (sig.busy ~> ~sig.busy)

(* C29 witness: a pick and an export have both been made and have ended,   *)
(* the later one by a request that timed out; busy is false again.         *)
C29_Witness ==
    /\ budget.picks = 1
    /\ budget.runs = 1
    /\ task = Idle
    /\ ~sig.busy
    /\ sig.status = TimeoutMessage
    /\ pendingRequests = {}

----------------------------------------------------------------------------
(* Configuration claims *)

(* C30: every padding the configuration allows, 0 in particular, can be    *)
(* set through the padding input: after the user has entered N, padding()  *)
(* is N, and a rasterization started then uses N.                          *)
C30_PaddingSettable ==
    [][\A v \in PaddingInputs :
          PaddingInput(v) => (sig'.padding = v /\ rasterConfig(sig').padding = v)]_vars

====
